---- MODULE Spec2Model ----
(***************************************************************************)
(* State-machine model of the MultiversX / xExchange gateway core:         *)
(*   - trade()  of the xExchange controller (quote, limit check, build,    *)
(*     sign, submit), with XExchange.estimate*Trade and executeTrade;      *)
(*   - MultiversxController.poll (both versions in the repository) and     *)
(*     MultiversxBase.getTransaction / getTransactionReceipt with the      *)
(*     NodeCache receipt cache;                                            *)
(*   - price() with XExchange.getPrice over the pair's reserves;           *)
(*   - MultiversxController.balances;                                      *)
(*   - MultiversxBase.init / loadTokens and getTokenBySymbol.              *)
(* Every await of the code is a step boundary; the synchronous code        *)
(* between two awaits is one action.                                       *)
(***************************************************************************)
EXTENDS Integers, Sequences, FiniteSets, TLC

VARIABLES
    tokenList,        \* MultiversxBase.tokenList (after loadTokens)
    allowedSlippage,  \* XExchangeConfig.config.allowedSlippage
    req,              \* one record per trade request: locals of trade()
    chainNonce,       \* the wallet account's nonce as the provider reports it
    sent,             \* transactions handed to provider.sendTransaction, in order
    chainTx,          \* per hash: what provider.getTransaction answers
    cache,            \* MultiversxBase.cache (NodeCache): hash -> entry
    now,              \* clock, in cache ticks
    pollers,          \* one record per poll() / getTransactionReceipt() call
    last,             \* per hash: the latest cache.set and the latest poll result
    priceReq,         \* the locals of one price() request and its getPrice()
    pool,             \* the pair contract's reserve of each token identifier
    lastPrice,        \* what the previous successful price() request returned
    balReq,           \* the locals of one balances() request
    tokenMap,         \* MultiversxBase._tokenMap: symbol -> token
    lookup,           \* the latest token lookups: arguments and what they returned
    ready,            \* MultiversxBase._ready
    initState,        \* the init() calls, the promises they made, _initialized
    instances         \* XExchange._instances, Multiversx._instances, getInstance calls

vars == <<tokenList, allowedSlippage, req, chainNonce, sent,
          chainTx, cache, now, pollers, last,
          priceReq, pool, lastPrice, balReq, tokenMap, lookup, ready,
          initState, instances>>

tradeVars == <<tokenList, allowedSlippage, req, chainNonce, sent>>
pollVars == <<chainTx, cache, now, pollers, last>>
priceVars == <<priceReq, pool, lastPrice>>
dirVars == <<tokenMap, lookup, ready, initState, instances>>
\* what trade() and the receipt tracker never touch
extVars == <<priceVars, balReq, dirVars>>

----------------------------------------------------------------------------
(* Bounds of the model *)

MaxAmount == 2        \* req.amount ranges over 1..MaxAmount whole base tokens
MaxNonce == 2         \* the account nonce is explored up to this value
TTLTicks == 2         \* the cache's stdTTL (3600 s) in clock ticks
MaxTime == 3          \* the clock is explored up to this tick

----------------------------------------------------------------------------
(* Arithmetic of bignumber.js / decimal.js-light, on exact decimals        *)
(* [m |-> mantissa, e |-> fractional digits], value m / 10^e               *)

RECURSIVE Pow10(_)
Pow10(n) == IF n = 0 THEN 1 ELSE 10 * Pow10(n - 1)

\* ROUND_HALF_UP quotient of two non-negative integers (bignumber.js default
\* ROUNDING_MODE, used by toFixed(dp) and integerValue()).
RoundHalfUpDiv(a, b) == (2 * a + b) \div (2 * b)

Dec(m, e) == [m |-> m, e |-> e]

\* Decimal.gt / Decimal.lt: exact comparison of two decimals.
DecGt(x, y) == x.m * Pow10(y.e) > y.m * Pow10(x.e)
DecLt(x, y) == x.m * Pow10(y.e) < y.m * Pow10(x.e)

----------------------------------------------------------------------------
(* Token directory *)

ChainId == "D"

\* Symbols are sequences of characters; String.toUpperCase acts per character.
UpperChar(c) ==
    CASE c = "e" -> "E"
      [] c = "g" -> "G"
      [] c = "u" -> "U"
      [] c = "s" -> "S"
      [] c = "d" -> "D"
      [] c = "o" -> "O"
      [] OTHER -> c

ToUpperCase(s) == [i \in DOMAIN s |-> UpperChar(s[i])]

EG == <<"E", "G">>
US == <<"U", "S">>
DO == <<"D", "O">>
eg == <<"e", "g">>

\* The tokens the configured list holds for this chain.
LoadedTokens ==
    << [chainId |-> ChainId, symbol |-> EG, identifier |-> "EG-id", decimals |-> 1],
       [chainId |-> ChainId, symbol |-> US, identifier |-> "US-id", decimals |-> 2] >>

NoToken == [chainId |-> "", symbol |-> <<>>, identifier |-> "", decimals |-> 0]

\* bug variant: the symbols are compared as they are written
getTokenBySymbol_CaseSensitive(tokenSymbol) ==
    LET hits == {i \in DOMAIN tokenList :
                    /\ tokenList[i].symbol = tokenSymbol
                    /\ tokenList[i].chainId = ChainId}
    IN IF hits = {} THEN NoToken
       ELSE tokenList[CHOOSE i \in hits : \A j \in hits : i <= j]

\* Array.prototype.find: the first element satisfying the predicate.
getTokenBySymbol(tokenSymbol) ==
    LET hits == {i \in DOMAIN tokenList :
                    /\ ToUpperCase(tokenList[i].symbol) = ToUpperCase(tokenSymbol)
                    /\ tokenList[i].chainId = ChainId}
    IN IF hits = {} THEN NoToken
       ELSE tokenList[CHOOSE i \in hits : \A j \in hits : i <= j]

----------------------------------------------------------------------------
(* Error kinds a request can end in *)

TOKEN_NOT_SUPPORTED == "TOKEN_NOT_SUPPORTED"
TRADE_FAILED == "TRADE_FAILED"
UNKNOWN_ERROR == "UNKNOWN_ERROR"
SWAP_PRICE_EXCEEDS_LIMIT_PRICE == "SWAP_PRICE_EXCEEDS_LIMIT_PRICE"
SWAP_PRICE_LOWER_THAN_LIMIT_PRICE == "SWAP_PRICE_LOWER_THAN_LIMIT_PRICE"
\* an exception that leaves trade() as it was thrown, not as an HttpException
RAW_EXCEPTION == "RAW_EXCEPTION"

ClassifiedErrors ==
    {TOKEN_NOT_SUPPORTED, TRADE_FAILED, UNKNOWN_ERROR,
     SWAP_PRICE_EXCEEDS_LIMIT_PRICE, SWAP_PRICE_LOWER_THAN_LIMIT_PRICE}

\* What a failing await throws: an Error instance or some other value.
Thrown == {"Error", "NonError"}

----------------------------------------------------------------------------
(* Trade requests *)

AllReqs == {"r1", "r2"}
TradeReqs == {"r1"}

Sides == {"BUY", "SELL"}
Amounts == 1 .. MaxAmount

NoLimit == [m |-> -1, e |-> 0]
LimitPrices == {NoLimit, Dec(0, 0), Dec(100, 0), Dec(5005, 2), Dec(105, 0)}

\* (base, quote) symbols of a request
ReqPairs == { <<EG, US>>, <<eg, US>>, <<US, EG>>, <<EG, DO>>, <<DO, US>> }

\* amounts the pair contract can report for getAmountIn / getAmountOut
ReportedAmounts == {10000, 10010, 10500, 20000}

Wallet == "erd1wallet"
Addresses == {Wallet, "erd1missing"}

NoTrade == [inputToken |-> "", outputToken |-> "", inputAmount |-> 0,
            outputAmount |-> 0, tradeType |-> "NONE", expectedAmount |-> 0]
NoTx == [nonce |-> -1, sender |-> "", chainId |-> "", fn |-> "",
         transfer |-> 0, arg |-> 0, signed |-> FALSE]
NoPrice == [m |-> -1, e |-> 0]

IdleReq ==
    [pc |-> "idle", side |-> "BUY", base |-> <<>>, quote |-> <<>>, amount |-> 0,
     limitPrice |-> NoLimit, address |-> "", baseToken |-> NoToken,
     quoteToken |-> NoToken, trade |-> NoTrade, estimatedPrice |-> NoPrice,
     tx |-> NoTx, result |-> "none", failedAt |-> "none", phases |-> <<>>,
     pairQueries |-> 0, amountQueries |-> 0, execCalls |-> 0,
     nonceFetches |-> 0, signCalls |-> 0, sendCalls |-> 0,
     reported |-> -1,     \* what the pair contract answered to the amount query
     quoteNonce |-> -1,   \* the account nonce on chain when the quote arrived
     thrown |-> "none",   \* what the failed pair query threw
     expectedAmount |-> -1]   \* expectedIn / expectedOut of the response

\* the request ends by throwing `res`; `at` names the call that failed
Finish(r, res, at) ==
    [req EXCEPT ![r].pc = "done", ![r].result = res, ![r].failedAt = at]

\* bug variant: no catch, the exception leaves trade() as it was thrown
WrapTradeInfoError_Rethrown(e) == RAW_EXCEPTION

\* catch (e) of trade(): an Error becomes TRADE_FAILED, anything else UNKNOWN_ERROR
WrapTradeInfoError(e) == IF e = "Error" THEN TRADE_FAILED ELSE UNKNOWN_ERROR

----------------------------------------------------------------------------
(* XExchange.getAllowedSlippage, with no argument: the configured string   *)

Malformed == [ok |-> FALSE, num |-> 0, den |-> 1]
Fraction(n, d) == [ok |-> TRUE, num |-> n, den |-> d]
SlippageConfigs == {Fraction(1, 100), Fraction(1, 2), Malformed}

\* percentRegexp matches "n/d"; anything else throws.
SlippageIsValid(cfg) == cfg.ok

\* amountOutMin = (1 / (1 + tolerance)) * expectedAmount, integerValue()
AmountOutMin(expectedAmount, cfg) ==
    RoundHalfUpDiv(expectedAmount * cfg.den, cfg.den + cfg.num)

\* bug variant: the quoted input amount is transferred without the buffer
BufferedInput_NoBuffer(expectedAmount) == expectedAmount

\* inputAmount = expectedAmount * 1.01, integerValue()
BufferedInput(expectedAmount) == RoundHalfUpDiv(expectedAmount * 101, 100)

----------------------------------------------------------------------------
(* trade(): the limit-price guard *)

\* estimatedPrice = amount / 10^quoteDecimals / req.amount, toFixed(baseDecimals)
EstimatedPrice(amt, quoteDecimals, amount, baseDecimals) ==
    Dec(RoundHalfUpDiv(amt * Pow10(baseDecimals), Pow10(quoteDecimals) * amount),
        baseDecimals)

\* bug variant: an absent limitPrice is compared like a supplied one
LimitSupplied_Always(limitPrice) == TRUE

\* truthiness of req.limitPrice
LimitSupplied(limitPrice) == limitPrice # NoLimit

\* bug variant: the BUY branch compares in the SELL direction
BuyLimitViolated_WrongDirection(estimatedPrice, limitPrice) ==
    limitPrice # NoLimit /\ DecLt(estimatedPrice, limitPrice)

BuyLimitViolated(estimatedPrice, limitPrice) ==
    LimitSupplied(limitPrice) /\ DecGt(estimatedPrice, limitPrice)

\* bug variant: the SELL branch also rejects a price equal to the limit
SellLimitViolated_Inclusive(estimatedPrice, limitPrice) ==
    limitPrice # NoLimit /\ ~DecGt(estimatedPrice, limitPrice)

SellLimitViolated(estimatedPrice, limitPrice) ==
    LimitSupplied(limitPrice) /\ DecLt(estimatedPrice, limitPrice)

----------------------------------------------------------------------------
(* trade(): one action per await *)

\* trade() is entered: limitPrice read, multiversx.getWallet(req.address) called
TradeStart(r) ==
    /\ req[r].pc = "idle"
    /\ \E side \in Sides, pair \in ReqPairs, amount \in Amounts,
          limit \in LimitPrices, addr \in Addresses :
          req' = [req EXCEPT ![r] =
                    [IdleReq EXCEPT !.pc = "getWallet", !.side = side,
                                    !.base = pair[1], !.quote = pair[2],
                                    !.amount = amount, !.limitPrice = limit,
                                    !.address = addr]]
    /\ UNCHANGED <<tokenList, allowedSlippage, chainNonce, sent>>
    /\ UNCHANGED <<pollVars, extVars>>

\* getWallet returns or throws (not inside the try); then getTradeInfo resolves
\* both symbols and estimate*Trade issues the getPair query.
GetWalletReturn(r) ==
    /\ req[r].pc = "getWallet"
    /\ LET baseToken == getTokenBySymbol(req[r].base)
           quoteToken == getTokenBySymbol(req[r].quote)
       IN \/ /\ req[r].address # Wallet
             /\ req' = Finish(r, RAW_EXCEPTION, "getWallet")
          \/ /\ req[r].address = Wallet
             /\ baseToken = NoToken \/ quoteToken = NoToken
                \* HttpException(TOKEN_NOT_SUPPORTED) is an Error: caught and wrapped
             /\ req' = Finish(r, WrapTradeInfoError("Error"), "getTokenBySymbol")
          \/ /\ req[r].address = Wallet
             /\ baseToken # NoToken /\ quoteToken # NoToken
             /\ req' = [req EXCEPT ![r].pc = "getPair",
                                   ![r].baseToken = baseToken,
                                   ![r].quoteToken = quoteToken,
                                   ![r].pairQueries = @ + 1]
    /\ UNCHANGED <<tokenList, allowedSlippage, chainNonce, sent>>
    /\ UNCHANGED <<pollVars, extVars>>

\* the getPair query returns; the pair ABI is read and getAmountIn/Out is queried
GetPairReturn(r) ==
    /\ req[r].pc = "getPair"
    /\ \/ \E e \in Thrown :
             req' = [Finish(r, WrapTradeInfoError(e), "getPair")
                       EXCEPT ![r].thrown = e]
       \/ req' = [req EXCEPT ![r].pc = "getAmount", ![r].amountQueries = @ + 1]
    /\ UNCHANGED <<tokenList, allowedSlippage, chainNonce, sent>>
    /\ UNCHANGED <<pollVars, extVars>>

\* bug variant: the two amounts of a buy estimate change places
estimateBuyTrade_AmountsSwapped(quoteToken, baseToken, rawAmount, reported) ==
    [inputToken |-> quoteToken, outputToken |-> baseToken,
     inputAmount |-> rawAmount, outputAmount |-> reported,
     tradeType |-> "EXACT_OUTPUT", expectedAmount |-> reported]

\* bug variant: the output is recomputed locally with a 0.3% fee taken off
estimateSellTrade_Recomputed(baseToken, quoteToken, rawAmount, reported) ==
    [inputToken |-> baseToken, outputToken |-> quoteToken,
     inputAmount |-> rawAmount, outputAmount |-> (reported * 997) \div 1000,
     tradeType |-> "EXACT_INPUT", expectedAmount |-> reported]

\* estimateBuyTrade(quote, base, rawAmount) once getAmountIn reported `reported`
estimateBuyTrade(quoteToken, baseToken, rawAmount, reported) ==
    [inputToken |-> quoteToken, outputToken |-> baseToken,
     inputAmount |-> reported, outputAmount |-> rawAmount,
     tradeType |-> "EXACT_OUTPUT", expectedAmount |-> reported]

\* estimateSellTrade(base, quote, rawAmount) once getAmountOut reported `reported`
estimateSellTrade(baseToken, quoteToken, rawAmount, reported) ==
    [inputToken |-> baseToken, outputToken |-> quoteToken,
     inputAmount |-> rawAmount, outputAmount |-> reported,
     tradeType |-> "EXACT_INPUT", expectedAmount |-> reported]

\* the amount query returns: getTradeInfo returns the TradeInfo, or throws
GetAmountReturn(r) ==
    /\ req[r].pc = "getAmount"
    /\ LET rawAmount == req[r].amount * Pow10(req[r].baseToken.decimals)
       IN \/ \E e \in Thrown :
                req' = [Finish(r, WrapTradeInfoError(e), "getAmount")
                          EXCEPT ![r].thrown = e]
          \/ \E reported \in ReportedAmounts :
                req' = [req EXCEPT
                    ![r].pc = "quoted",
                    ![r].phases = Append(@, "QUOTED"),
                    ![r].reported = reported,
                    ![r].quoteNonce = chainNonce,
                    ![r].trade =
                        IF req[r].side = "BUY"
                        THEN estimateBuyTrade(req[r].quoteToken.identifier,
                                              req[r].baseToken.identifier,
                                              rawAmount, reported)
                        ELSE estimateSellTrade(req[r].baseToken.identifier,
                                               req[r].quoteToken.identifier,
                                               rawAmount, reported)]
    /\ UNCHANGED <<tokenList, allowedSlippage, chainNonce, sent>>
    /\ UNCHANGED <<pollVars, extVars>>

\* trade() continues after getTradeInfo: estimatedPrice, the limit check, and
\* on success the call of executeTrade (up to its read of the pair ABI).
LimitCheck(r) ==
    /\ req[r].pc = "quoted"
    /\ LET t == req[r].trade
           estimatedPrice ==
                EstimatedPrice(IF req[r].side = "BUY" THEN t.inputAmount
                                                       ELSE t.outputAmount,
                               req[r].quoteToken.decimals, req[r].amount,
                               req[r].baseToken.decimals)
           violated == IF req[r].side = "BUY"
                       THEN BuyLimitViolated(estimatedPrice, req[r].limitPrice)
                       ELSE SellLimitViolated(estimatedPrice, req[r].limitPrice)
           kind == IF req[r].side = "BUY" THEN SWAP_PRICE_EXCEEDS_LIMIT_PRICE
                                          ELSE SWAP_PRICE_LOWER_THAN_LIMIT_PRICE
       IN IF violated
          THEN req' = [req EXCEPT ![r].pc = "done", ![r].result = kind,
                                  ![r].failedAt = "limitCheck",
                                  ![r].expectedAmount = t.inputAmount,
                                  ![r].estimatedPrice = estimatedPrice,
                                  ![r].phases = Append(@, "REJECTED")]
          ELSE req' = [req EXCEPT ![r].pc = "execute",
                                  ![r].expectedAmount = t.inputAmount,
                                  ![r].estimatedPrice = estimatedPrice,
                                  ![r].phases = Append(@, "LIMIT_CHECKED"),
                                  ![r].execCalls = @ + 1]
    /\ UNCHANGED <<tokenList, allowedSlippage, chainNonce, sent>>
    /\ UNCHANGED <<pollVars, extVars>>

\* executeTrade after the ABI read: the interaction is built (EXACT_INPUT reads
\* the slippage configuration, which may throw) and provider.getAccount is called
ExecuteTradeBuild(r) ==
    /\ req[r].pc = "execute"
    /\ LET t == req[r].trade
       IN IF t.tradeType = "EXACT_INPUT"
          THEN IF SlippageIsValid(allowedSlippage)
               THEN req' = [req EXCEPT
                        ![r].pc = "getAccount",
                        ![r].nonceFetches = @ + 1,
                        ![r].tx = [NoTx EXCEPT
                            !.fn = "swapTokensFixedInput",
                            !.arg = AmountOutMin(t.expectedAmount, allowedSlippage),
                            !.transfer = t.inputAmount]]
               ELSE req' = Finish(r, RAW_EXCEPTION, "getAllowedSlippage")
          ELSE req' = [req EXCEPT
                        ![r].pc = "getAccount",
                        ![r].nonceFetches = @ + 1,
                        ![r].tx = [NoTx EXCEPT
                            !.fn = "swapTokensFixedOutput",
                            !.arg = t.outputAmount,
                            !.transfer = BufferedInput(t.expectedAmount)]]
    /\ UNCHANGED <<tokenList, allowedSlippage, chainNonce, sent>>
    /\ UNCHANGED <<pollVars, extVars>>

\* bug variant: the transaction carries the nonce known when the quote was made
GetAccountReturn_QuoteNonce(r) ==
    /\ req[r].pc = "getAccount"
    /\ \/ req' = Finish(r, RAW_EXCEPTION, "getAccount")
       \/ req' = [req EXCEPT ![r].pc = "sign",
                             ![r].tx.nonce = req[r].quoteNonce,
                             ![r].tx.sender = req[r].address,
                             ![r].tx.chainId = ChainId,
                             ![r].signCalls = @ + 1]
    /\ UNCHANGED <<tokenList, allowedSlippage, chainNonce, sent>>
    /\ UNCHANGED <<pollVars, extVars>>

\* provider.getAccount returns: nonce, sender and chain id are bound, the
\* transaction is built, executeTrade returns and account.sign is called
GetAccountReturn(r) ==
    /\ req[r].pc = "getAccount"
    /\ \/ req' = Finish(r, RAW_EXCEPTION, "getAccount")
       \/ req' = [req EXCEPT ![r].pc = "sign",
                             ![r].tx.nonce = chainNonce,
                             ![r].tx.sender = req[r].address,
                             ![r].tx.chainId = ChainId,
                             ![r].signCalls = @ + 1]
    /\ UNCHANGED <<tokenList, allowedSlippage, chainNonce, sent>>
    /\ UNCHANGED <<pollVars, extVars>>

\* bug variant: sendTransaction(tx) is called without tx.applySignature
SignReturn_SendUnsigned(r) ==
    /\ req[r].pc = "sign"
    /\ \/ /\ req' = Finish(r, RAW_EXCEPTION, "sign")
          /\ sent' = sent
       \/ /\ req' = [req EXCEPT ![r].pc = "send", ![r].sendCalls = @ + 1]
          /\ sent' = Append(sent, [by |-> r, tx |-> req'[r].tx])
    /\ UNCHANGED <<tokenList, allowedSlippage, chainNonce>>
    /\ UNCHANGED <<pollVars, extVars>>

\* account.sign returns: tx.applySignature, then provider.sendTransaction(tx)
SignReturn(r) ==
    /\ req[r].pc = "sign"
    /\ \/ /\ req' = Finish(r, RAW_EXCEPTION, "sign")
          /\ sent' = sent
       \/ /\ req' = [req EXCEPT ![r].pc = "send",
                                ![r].tx.signed = TRUE,
                                ![r].phases = Append(@, "SIGNED"),
                                ![r].sendCalls = @ + 1]
          /\ sent' = Append(sent, [by |-> r, tx |-> req'[r].tx])
    /\ UNCHANGED <<tokenList, allowedSlippage, chainNonce>>
    /\ UNCHANGED <<pollVars, extVars>>

\* bug variant: a failed submission is retried once with the same signed tx
SendReturn_Retry(r) ==
    /\ req[r].pc = "send"
    /\ \/ /\ req[r].sendCalls < 2
          /\ req' = [req EXCEPT ![r].sendCalls = @ + 1]
          /\ sent' = Append(sent, [by |-> r, tx |-> req[r].tx])
          /\ chainNonce' = chainNonce
       \/ /\ req[r].sendCalls >= 2
          /\ req' = Finish(r, RAW_EXCEPTION, "sendTransaction")
          /\ UNCHANGED <<chainNonce, sent>>
       \/ /\ req' = [req EXCEPT ![r].pc = "done", ![r].result = "OK",
                                ![r].phases = Append(@, "SUBMITTED")]
          /\ UNCHANGED <<chainNonce, sent>>
    /\ UNCHANGED <<tokenList, allowedSlippage>>
    /\ UNCHANGED <<pollVars, extVars>>

\* provider.sendTransaction returns the hash, or throws (rejection, timeout)
SendReturn(r) ==
    /\ req[r].pc = "send"
    /\ \/ /\ req' = Finish(r, RAW_EXCEPTION, "sendTransaction")
          /\ chainNonce' = chainNonce
       \/ /\ req' = [req EXCEPT ![r].pc = "done", ![r].result = "OK",
                                ![r].phases = Append(@, "SUBMITTED")]
          /\ chainNonce' = IF req[r].tx.nonce = chainNonce /\ chainNonce < MaxNonce
                           THEN chainNonce + 1 ELSE chainNonce
    /\ UNCHANGED <<tokenList, allowedSlippage, sent>>
    /\ UNCHANGED <<pollVars, extVars>>

\* another transaction of the same wallet is included on chain
NonceAdvance ==
    /\ chainNonce < MaxNonce
    /\ chainNonce' = chainNonce + 1
    /\ UNCHANGED <<tokenList, allowedSlippage, req, sent>>
    /\ UNCHANGED <<pollVars, extVars>>

TradeStep(r) ==
    \/ TradeStart(r)
    \/ GetWalletReturn(r)
    \/ GetPairReturn(r)
    \/ GetAmountReturn(r)
    \/ LimitCheck(r)
    \/ ExecuteTradeBuild(r)
    \/ GetAccountReturn(r)
    \/ SignReturn(r)
    \/ SendReturn(r)

----------------------------------------------------------------------------
(* bignumber.js values as getPrice computes them *)

PriceDigits == 9        \* price.toFixed(9)
DecimalPlaces == 20     \* BigNumber DECIMAL_PLACES, applied by dividedBy

\* A BigNumber: a finite decimal int.frac (frac a sequence of digits), or one
\* of the two non-finite values.
Num(int, frac) == [kind |-> "num", int |-> int, frac |-> frac]
Infinity == [kind |-> "Infinity", int |-> 0, frac |-> <<>>]
NaN == [kind |-> "NaN", int |-> 0, frac |-> <<>>]
NoValue == [kind |-> "none", int |-> 0, frac |-> <<>>]

\* the first n fractional digits of r / den (0 <= r < den), by long division
RECURSIVE FracDigits(_, _, _)
FracDigits(r, den, n) ==
    IF n = 0 THEN <<>>
    ELSE <<(10 * r) \div den>> \o FracDigits((10 * r) % den, den, n - 1)

\* the remainder the long division is left with after n digits
RECURSIVE RemAfter(_, _, _)
RemAfter(r, den, n) ==
    IF n = 0 THEN r ELSE RemAfter((10 * r) % den, den, n - 1)

\* one unit more in the last place of int.frac
RECURSIVE Incr(_, _)
Incr(int, frac) ==
    IF frac = <<>> THEN Num(int + 1, <<>>)
    ELSE LET n == Len(frac)
         IN IF frac[n] < 9 THEN Num(int, [frac EXCEPT ![n] = @ + 1])
            ELSE LET up == Incr(int, SubSeq(frac, 1, n - 1))
                 IN Num(up.int, up.frac \o <<0>>)

\* num / den rounded ROUND_HALF_UP to dp fractional digits (den > 0)
DivRound(num, den, dp) ==
    LET frac == FracDigits(num % den, den, dp)
        rem == RemAfter(num % den, den, dp)
    IN IF 2 * rem >= den THEN Incr(num \div den, frac)
                         ELSE Num(num \div den, frac)

\* x.dividedBy(y) for x = xn / xd and y = yn / yd, xd and yd powers of ten:
\* no exception for a zero divisor; a finite quotient has DecimalPlaces digits
BigDiv(xn, xd, yn, yd) ==
    IF yn = 0 THEN (IF xn = 0 THEN NaN ELSE Infinity)
    ELSE DivRound(xn * yd, xd * yn, DecimalPlaces)

\* bug variant: the digits after dp are cut off (ROUND_DOWN)
ToFixed_RoundDown(x, dp) ==
    IF x.kind # "num" THEN x
    ELSE IF Len(x.frac) <= dp
         THEN Num(x.int, x.frac \o [i \in 1 .. (dp - Len(x.frac)) |-> 0])
         ELSE Num(x.int, SubSeq(x.frac, 1, dp))

\* x.toFixed(dp): ROUND_HALF_UP at digit dp, zero-padded; non-finite as it is
ToFixed(x, dp) ==
    IF x.kind # "num" THEN x
    ELSE IF Len(x.frac) <= dp
         THEN Num(x.int, x.frac \o [i \in 1 .. (dp - Len(x.frac)) |-> 0])
         ELSE IF x.frac[dp + 1] >= 5 THEN Incr(x.int, SubSeq(x.frac, 1, dp))
                                     ELSE Num(x.int, SubSeq(x.frac, 1, dp))

\* new BigNumber(str).toFixed(): normal notation, no trailing zeros
RECURSIVE StripZeros(_)
StripZeros(frac) ==
    IF frac # <<>> /\ frac[Len(frac)] = 0
    THEN StripZeros(SubSeq(frac, 1, Len(frac) - 1)) ELSE frac

ToFixedPlain(x) == IF x.kind # "num" THEN x ELSE Num(x.int, StripZeros(x.frac))

\* bug variant: the base reserve divided by the quote reserve
PoolPrice_Inverted(baseReserves, baseDecimals, quoteReserves, quoteDecimals) ==
    ToFixed(BigDiv(baseReserves, Pow10(baseDecimals),
                   quoteReserves, Pow10(quoteDecimals)), PriceDigits)

\* getPrice: quoteReserves / 10^qd divided by baseReserves / 10^bd (a division
\* by a power of ten up to 10^20 is exact), then toFixed(9)
PoolPrice(baseReserves, baseDecimals, quoteReserves, quoteDecimals) ==
    ToFixed(BigDiv(quoteReserves, Pow10(quoteDecimals),
                   baseReserves, Pow10(baseDecimals)), PriceDigits)

----------------------------------------------------------------------------
(* price() with XExchange.getPrice: one action per await *)

\* raw reserves the pair contract can report (unsigned integers)
Reserves == {0, 1, 2, 3, 1000, 50000}
TokenIds == {"EG-id", "US-id"}

PRICE_FAILED == "PRICE_FAILED"

IdlePrice ==
    [pc |-> "idle", base |-> <<>>, quote |-> <<>>, amount |-> 0,
     baseToken |-> NoToken, quoteToken |-> NoToken,
     baseReserves |-> -1, quoteReserves |-> -1,
     price |-> NoValue, expectedAmount |-> NoValue,
     result |-> "none", failedAt |-> "none",
     pairQueries |-> 0, reserveQueries |-> 0,
     thrown |-> "none"]   \* what getPrice threw

\* catch (e) of price(): an Error becomes PRICE_FAILED, anything else UNKNOWN_ERROR
WrapPriceError(e) == IF e = "Error" THEN PRICE_FAILED ELSE UNKNOWN_ERROR

PriceFinish(res, at) ==
    [priceReq EXCEPT !.pc = "done", !.result = res, !.failedAt = at]

\* bug variant: the symbols are resolved inside the try, so an unknown symbol
\* is reported as a price failure
PriceStart_Wrapped ==
    /\ priceReq.pc = "idle"
    /\ \E pair \in ReqPairs, amount \in Amounts :
          LET baseToken == getTokenBySymbol(pair[1])
              quoteToken == getTokenBySymbol(pair[2])
              call == [IdlePrice EXCEPT !.base = pair[1], !.quote = pair[2],
                                        !.amount = amount]
          IN IF baseToken = NoToken \/ quoteToken = NoToken
             THEN priceReq' = [call EXCEPT !.pc = "done",
                                           !.result = WrapPriceError("Error"),
                                           !.failedAt = "getTokenBySymbol"]
             ELSE priceReq' = [call EXCEPT !.pc = "getPair",
                                           !.baseToken = baseToken,
                                           !.quoteToken = quoteToken,
                                           !.pairQueries = 1]
    /\ UNCHANGED <<pool, lastPrice, balReq, dirVars>>
    /\ UNCHANGED <<tradeVars, pollVars>>

\* price() is entered: both symbols are resolved by getFullTokenFromSymbol,
\* outside the try; then getPrice issues the router's getPair query
PriceStart ==
    /\ priceReq.pc = "idle"
    /\ \E pair \in ReqPairs, amount \in Amounts :
          LET baseToken == getTokenBySymbol(pair[1])
              quoteToken == getTokenBySymbol(pair[2])
              call == [IdlePrice EXCEPT !.base = pair[1], !.quote = pair[2],
                                        !.amount = amount]
          IN IF baseToken = NoToken \/ quoteToken = NoToken
             THEN priceReq' = [call EXCEPT !.pc = "done",
                                           !.result = TOKEN_NOT_SUPPORTED,
                                           !.failedAt = "getTokenBySymbol"]
             ELSE priceReq' = [call EXCEPT !.pc = "getPair",
                                           !.baseToken = baseToken,
                                           !.quoteToken = quoteToken,
                                           !.pairQueries = 1]
    /\ UNCHANGED <<pool, lastPrice, balReq, dirVars>>
    /\ UNCHANGED <<tradeVars, pollVars>>

\* the getPair query returns: a rejected query, or a result without a first
\* value (pairAddress.bech32() of undefined is a TypeError), ends in the catch;
\* otherwise the pair ABI is read and the base reserve is queried
PriceGetPairReturn ==
    /\ priceReq.pc = "getPair"
    /\ \/ \E e \in Thrown :
             priceReq' = [PriceFinish(WrapPriceError(e), "getPair")
                            EXCEPT !.thrown = e]
       \/ priceReq' = [PriceFinish(WrapPriceError("Error"), "pairAddress")
                         EXCEPT !.thrown = "Error"]
       \/ priceReq' = [priceReq EXCEPT !.pc = "getReserveBase",
                                       !.reserveQueries = @ + 1]
    /\ UNCHANGED <<pool, lastPrice, balReq, dirVars>>
    /\ UNCHANGED <<tradeVars, pollVars>>

\* bug variant: both reserves are taken from one pool state at the first read
PriceBaseReserveReturn_Both ==
    /\ priceReq.pc = "getReserveBase"
    /\ \/ \E e \in Thrown :
             priceReq' = [PriceFinish(WrapPriceError(e), "getReserveBase")
                            EXCEPT !.thrown = e]
       \/ priceReq' = [priceReq EXCEPT
                         !.pc = "getReserveQuote",
                         !.baseReserves = pool[priceReq.baseToken.identifier],
                         !.quoteReserves = pool[priceReq.quoteToken.identifier],
                         !.reserveQueries = @ + 1]
    /\ UNCHANGED <<pool, lastPrice, balReq, dirVars>>
    /\ UNCHANGED <<tradeVars, pollVars>>

\* getReserve(base) returns; getReserve(quote) is queried
PriceBaseReserveReturn ==
    /\ priceReq.pc = "getReserveBase"
    /\ \/ \E e \in Thrown :
             priceReq' = [PriceFinish(WrapPriceError(e), "getReserveBase")
                            EXCEPT !.thrown = e]
       \/ priceReq' = [priceReq EXCEPT
                         !.pc = "getReserveQuote",
                         !.baseReserves = pool[priceReq.baseToken.identifier],
                         !.reserveQueries = @ + 1]
    /\ UNCHANGED <<pool, lastPrice, balReq, dirVars>>
    /\ UNCHANGED <<tradeVars, pollVars>>

\* getReserve(quote) returns: getPrice computes the price and price() builds
\* its response (expectedAmount is the price re-rendered)
PriceQuoteReserveReturn ==
    /\ priceReq.pc = "getReserveQuote"
    /\ \/ \E e \in Thrown :
             priceReq' = [PriceFinish(WrapPriceError(e), "getReserveQuote")
                            EXCEPT !.thrown = e]
       \/ LET quoteReserves == pool[priceReq.quoteToken.identifier]
              price == PoolPrice(priceReq.baseReserves,
                                 priceReq.baseToken.decimals,
                                 quoteReserves,
                                 priceReq.quoteToken.decimals)
          IN priceReq' = [priceReq EXCEPT !.pc = "done", !.result = "OK",
                                          !.quoteReserves = quoteReserves,
                                          !.price = price,
                                          !.expectedAmount = ToFixedPlain(price)]
    /\ UNCHANGED <<pool, lastPrice, balReq, dirVars>>
    /\ UNCHANGED <<tradeVars, pollVars>>

NoLastPrice == [known |-> FALSE, base |-> "", quote |-> "",
                baseReserves |-> -1, quoteReserves |-> -1, price |-> NoValue]

\* the response has been sent; the next price() request can come in
PriceAgain ==
    /\ priceReq.pc = "done"
    /\ priceReq' = IdlePrice
    /\ lastPrice' = IF priceReq.result = "OK"
                    THEN [known |-> TRUE,
                          base |-> priceReq.baseToken.identifier,
                          quote |-> priceReq.quoteToken.identifier,
                          baseReserves |-> priceReq.baseReserves,
                          quoteReserves |-> priceReq.quoteReserves,
                          price |-> priceReq.price]
                    ELSE lastPrice
    /\ UNCHANGED <<pool, balReq, dirVars>>
    /\ UNCHANGED <<tradeVars, pollVars>>

\* the states a pair is taken through by swaps of other traders: a swap adds
\* to one reserve and takes from the other
PoolStates ==
    { [id \in TokenIds |-> IF id = "EG-id" THEN 1000 ELSE 50000],
      [id \in TokenIds |-> IF id = "EG-id" THEN 2000 ELSE 25000],
      [id \in TokenIds |-> IF id = "EG-id" THEN 500 ELSE 100000] }

\* another trade executes against the pair: both reserves change together
PoolTrade ==
    /\ \E next \in PoolStates :
          /\ next # pool
          /\ pool' = next
    /\ UNCHANGED <<priceReq, lastPrice, balReq, dirVars>>
    /\ UNCHANGED <<tradeVars, pollVars>>

\* someone trades against the pair: a reserve changes
PoolSwap ==
    /\ \E id \in TokenIds, v \in Reserves :
          /\ pool[id] # v
          /\ pool' = [pool EXCEPT ![id] = v]
    /\ UNCHANGED <<priceReq, lastPrice, balReq, dirVars>>
    /\ UNCHANGED <<tradeVars, pollVars>>

----------------------------------------------------------------------------
(* MultiversxController.balances: one action per await *)

LOAD_WALLET_ERROR == "LOAD_WALLET_ERROR"

\* the symbols a request can name, and the lists it can send
Symbols == {EG, US, DO, eg}
SymbolLists == {<<>>} \cup {<<s>> : s \in Symbols}
                      \cup {<<s, t>> : s, t \in Symbols}

Networks == {"mainnet", "mainnet_paper_trade"}

\* raw balances the provider can report
RawBalances == {0, 15, 1000}

\* getTokenSymbolsToTokens: the keys of the returned record, i.e. the requested
\* symbols (as written in the request) that getTokenBySymbol resolves
getTokenSymbolsToTokens(tokenSymbols) ==
    {tokenSymbols[i] : i \in {j \in DOMAIN tokenSymbols :
                                 getTokenBySymbol(tokenSymbols[j]) # NoToken}}

\* ethers formatUnits(raw, decimals): at least one fractional digit, no other
\* trailing zero
FormatUnits(raw, decimals) ==
    LET digits == StripZeros(FracDigits(raw % Pow10(decimals), Pow10(decimals),
                                        decimals))
    IN Num(raw \div Pow10(decimals), IF digits = <<>> THEN <<0>> ELSE digits)

\* the balance of every token on the paper-trade network: 1000000 tokens
PaperBalance(decimals) == FormatUnits(1000 * 1000 * Pow10(decimals), decimals)

NoBalances == [s \in Symbols |-> NoValue]

IdleBal ==
    [pc |-> "idle", address |-> "", network |-> "", tokenSymbols |-> <<>>,
     tokens |-> {}, pending |-> {}, balances |-> NoBalances,
     result |-> "none", failedAt |-> "none", balanceQueries |-> 0]

\* balances() is entered: multiversx.getWallet(req.address) is called
BalStart ==
    /\ balReq.pc = "idle"
    /\ \E addr \in Addresses, net \in Networks, syms \in SymbolLists :
          balReq' = [IdleBal EXCEPT !.pc = "getWallet", !.address = addr,
                                    !.network = net, !.tokenSymbols = syms]
    /\ UNCHANGED <<priceVars, dirVars>>
    /\ UNCHANGED <<tradeVars, pollVars>>

\* getWallet returns or throws (inside the try: LOAD_WALLET_ERROR); the symbols
\* are resolved; on the paper-trade network the response is built at once,
\* otherwise getESDTBalance is called for every resolved symbol
BalGetWalletReturn ==
    /\ balReq.pc = "getWallet"
    /\ LET tokens == getTokenSymbolsToTokens(balReq.tokenSymbols)
       IN IF balReq.address # Wallet
          THEN balReq' = [balReq EXCEPT !.pc = "done",
                                        !.result = LOAD_WALLET_ERROR,
                                        !.failedAt = "getWallet"]
          ELSE IF balReq.network = "mainnet_paper_trade"
          THEN balReq' = [balReq EXCEPT
                            !.pc = "done", !.result = "OK", !.tokens = tokens,
                            !.balances =
                               [s \in Symbols |->
                                  IF s \in tokens
                                  THEN PaperBalance(getTokenBySymbol(s).decimals)
                                  ELSE NoValue]]
          ELSE balReq' = [balReq EXCEPT
                            !.pc = "getBalances", !.tokens = tokens,
                            !.pending = tokens,
                            !.balanceQueries = Cardinality(tokens)]
    /\ UNCHANGED <<priceVars, dirVars>>
    /\ UNCHANGED <<tradeVars, pollVars>>

\* one getFungibleTokenOfAccount call returns: the balance is formatted into
\* balances[symbol]; a rejection rejects Promise.all, outside any try
BalTokenReturn ==
    /\ balReq.pc = "getBalances"
    /\ \E s \in balReq.pending :
          \/ balReq' = [balReq EXCEPT !.pc = "done", !.result = RAW_EXCEPTION,
                                      !.failedAt = "getESDTBalance"]
          \/ \E raw \in RawBalances :
                balReq' = [balReq EXCEPT
                             !.pending = @ \ {s},
                             !.balances[s] =
                                FormatUnits(raw, getTokenBySymbol(s).decimals)]
    /\ UNCHANGED <<priceVars, dirVars>>
    /\ UNCHANGED <<tradeVars, pollVars>>

\* Promise.all has resolved: no balance at all is TOKEN_NOT_SUPPORTED
BalAllReturn ==
    /\ balReq.pc = "getBalances"
    /\ balReq.pending = {}
    /\ balReq' = [balReq EXCEPT
                    !.pc = "done",
                    !.result = IF \A s \in Symbols : balReq.balances[s] = NoValue
                               THEN TOKEN_NOT_SUPPORTED ELSE "OK",
                    !.failedAt = IF \A s \in Symbols : balReq.balances[s] = NoValue
                                 THEN "balances" ELSE "none"]
    /\ UNCHANGED <<priceVars, dirVars>>
    /\ UNCHANGED <<tradeVars, pollVars>>

----------------------------------------------------------------------------
(* MultiversxBase.init / loadTokens and the symbol lookups *)

MaxListLen == 3       \* the configured token list holds up to this many entries

EGToken == LoadedTokens[1]
USToken == LoadedTokens[2]
\* a second entry with the symbol EG, an entry whose symbol differs from EG only
\* in case, and an EG entry of another chain
EGTwin == [chainId |-> ChainId, symbol |-> EG, identifier |-> "EG2-id", decimals |-> 2]
egToken == [chainId |-> ChainId, symbol |-> eg, identifier |-> "eg-id", decimals |-> 1]
EGElsewhere == [chainId |-> "1", symbol |-> EG, identifier |-> "EG-id", decimals |-> 1]

SourceTokens == {EGToken, USToken, EGTwin, egToken, EGElsewhere}

\* what getTokenList can return: every list of up to MaxListLen entries
SourceLists == UNION {[1 .. n -> SourceTokens] : n \in 0 .. MaxListLen}

\* tokenList.filter(token => token.chainId === this.chainId)
FilterChain(list) == SelectSeq(list, LAMBDA token : token.chainId = ChainId)

EmptyTokenMap == [s \in Symbols |-> NoToken]

\* list.forEach(token => _tokenMap[token.symbol] = token): the last entry of a
\* symbol wins, the keys of other symbols stay
TokenMapAfter(map, list) ==
    [s \in Symbols |->
        LET hits == {i \in DOMAIN list : list[i].symbol = s}
        IN IF hits = {} THEN map[s]
           ELSE list[CHOOSE i \in hits : \A j \in hits : j <= i]]

\* init() calls: each awaits the promise it finds in _initialized, then, when
\* not ready, starts loadTokens in a new promise, stores it in _initialized
\* and awaits it. promises[k] is the state of the k-th promise made; the
\* first is the constructor's Promise.resolve(false).
InitCalls == {"i1", "i2"}
MaxLoads == 2         \* init() is entered while fewer loads than this have begun

IdleInit == [pc |-> "idle", waits |-> 0]

InitNotCalled ==
    [calls |-> [c \in InitCalls |-> IdleInit],
     promises |-> <<"false">>,
     initialized |-> 1,
     loads |-> 0,              \* loadTokens calls begun
     failed |-> 0,             \* loadTokens calls that threw
     loaded |-> FALSE,         \* a loadTokens call has returned
     reloaded |-> FALSE]       \* loadTokens was begun after one had returned

\* one init() call has loaded the tokens and returned
InitOver ==
    [InitNotCalled EXCEPT !.promises = <<"false", "true">>,
                          !.initialized = 2,
                          !.loads = 1,
                          !.loaded = TRUE]

\* init() is called: await this._initialized
InitEnter(c) ==
    /\ initState.calls[c].pc \in {"idle", "done"}
    /\ initState.loads < MaxLoads
    /\ initState' = [initState EXCEPT
                       !.calls[c] = [pc |-> "awaitPrev",
                                     waits |-> initState.initialized]]
    /\ UNCHANGED <<tokenMap, lookup, ready, instances, priceVars, balReq>>
    /\ UNCHANGED <<tradeVars, pollVars>>

\* the awaited promise has settled and init() goes on: when not ready, the
\* async function is called (loadTokens runs up to its await of getTokenList)
\* and its promise is stored in _initialized and awaited
InitResume(c) ==
    /\ initState.calls[c].pc = "awaitPrev"
    /\ initState.promises[initState.calls[c].waits] # "pending"
    /\ IF ~ready
       THEN initState' = [initState EXCEPT
                            !.promises = Append(@, "pending"),
                            !.initialized = Len(initState.promises) + 1,
                            !.loads = @ + 1,
                            !.reloaded = @ \/ initState.loaded,
                            !.calls[c] = [pc |-> "awaitLoad",
                                          waits |-> Len(initState.promises) + 1]]
       ELSE initState' = [initState EXCEPT !.calls[c] = [pc |-> "done",
                                                         waits |-> 0]]
    /\ UNCHANGED <<tokenMap, lookup, ready, instances, priceVars, balReq>>
    /\ UNCHANGED <<tradeVars, pollVars>>

\* getTokenList returns to the loadTokens of call c, which assigns the
\* filtered list and fills _tokenMap, and the promise resolves to true; or it
\* throws, and the promise resolves to false
LoadTokensReturn(c) ==
    /\ initState.calls[c].pc = "awaitLoad"
    /\ initState.promises[initState.calls[c].waits] = "pending"
    /\ \/ /\ \E source \in SourceLists :
                LET list == FilterChain(source)
                IN /\ tokenList' = list
                   /\ tokenMap' = TokenMapAfter(tokenMap, list)
          /\ initState' = [initState EXCEPT
                             !.promises[initState.calls[c].waits] = "true",
                             !.loaded = TRUE]
       \/ /\ initState' = [initState EXCEPT
                             !.promises[initState.calls[c].waits] = "false",
                             !.failed = @ + 1]
          /\ UNCHANGED <<tokenList, tokenMap>>
    /\ UNCHANGED <<allowedSlippage, req, chainNonce, sent>>
    /\ UNCHANGED <<lookup, ready, instances, priceVars, balReq, pollVars>>

\* this._ready = await this._initialized, and init() returns
InitFinish(c) ==
    /\ initState.calls[c].pc = "awaitLoad"
    /\ initState.promises[initState.calls[c].waits] # "pending"
    /\ ready' = (initState.promises[initState.calls[c].waits] = "true")
    /\ initState' = [initState EXCEPT !.calls[c] = [pc |-> "done", waits |-> 0]]
    /\ UNCHANGED <<tokenMap, lookup, instances, priceVars, balReq>>
    /\ UNCHANGED <<tradeVars, pollVars>>

\* init() while not ready: loadTokens assigns the filtered list and fills
\* _tokenMap, and _ready becomes true. (When getTokenList throws, nothing is
\* assigned and _ready stays false: a stuttering step.)
InitLoadTokens ==
    /\ ~ready
    /\ \E source \in SourceLists :
          LET list == FilterChain(source)
          IN /\ tokenList' = list
             /\ tokenMap' = TokenMapAfter(tokenMap, list)
    /\ ready' = TRUE
    /\ initState' = InitOver
    /\ UNCHANGED <<allowedSlippage, req, chainNonce, sent>>
    /\ UNCHANGED <<lookup, instances, priceVars, balReq, pollVars>>

----------------------------------------------------------------------------
(* XExchange.getInstance and Multiversx.getInstance *)

InstanceNetworks == {"mainnet", "devnet"}
GetCalls == {"g1", "g2"}
MaxBuilt == 3         \* getInstance is entered while fewer XExchange objects exist

IdleGet == [pc |-> "idle", network |-> "mainnet", instance |-> 0,
            returned |-> 0, result |-> "none"]

\* An instance of a network is named by its number among the objects
\* constructed for that network; 0 is no instance.
NoInstances ==
    [xInstances |-> [n \in InstanceNetworks |-> 0],   \* XExchange._instances
     mInstances |-> [n \in InstanceNetworks |-> 0],   \* Multiversx._instances
     xBuilt |-> [n \in InstanceNetworks |-> 0],       \* new XExchange(n) calls
     mBuilt |-> [n \in InstanceNetworks |-> 0],       \* new Multiversx(n) calls
     xInited |-> [n \in InstanceNetworks |-> 0],      \* init(n) calls completed
     calls |-> [g \in GetCalls |-> IdleGet]]

\* the server is up: the mainnet instances exist
InstancesUp ==
    [NoInstances EXCEPT !.xInstances["mainnet"] = 1,
                        !.mInstances["mainnet"] = 1,
                        !.xBuilt["mainnet"] = 1,
                        !.mBuilt["mainnet"] = 1,
                        !.xInited["mainnet"] = 1]

\* Multiversx.getInstance(network), synchronous: the state it leaves
MultiversxGetInstance(inst, network) ==
    IF inst.mInstances[network] = 0
    THEN [inst EXCEPT !.mBuilt[network] = @ + 1,
                      !.mInstances[network] = inst.mBuilt[network] + 1]
    ELSE inst

\* XExchange.getInstance(network) is called: a stored instance is returned;
\* otherwise an XExchange is constructed and its init() runs up to
\* `await Multiversx.getInstance(network)`
GetInstanceEnter(g) ==
    /\ instances.calls[g].pc \in {"idle", "done"}
    /\ \E network \in InstanceNetworks :
          /\ instances.xBuilt[network] < MaxBuilt
          /\ IF instances.xInstances[network] = 0
             THEN LET id == instances.xBuilt[network] + 1
                      withChain == MultiversxGetInstance(instances, network)
                  IN instances' =
                       [withChain EXCEPT
                          !.xBuilt[network] = id,
                          !.calls[g] = [IdleGet EXCEPT !.pc = "awaitChain",
                                                       !.network = network,
                                                       !.instance = id]]
             ELSE instances' =
                       [instances EXCEPT
                          !.calls[g] = [IdleGet EXCEPT
                                          !.pc = "done", !.network = network,
                                          !.result = "OK",
                                          !.returned = instances.xInstances[network]]]
    /\ UNCHANGED <<tokenMap, lookup, ready, initState, priceVars, balReq>>
    /\ UNCHANGED <<tradeVars, pollVars>>

\* init() resumes: chain and chainId are set, the stored token list is copied,
\* and the router ABI file is read
GetInstanceChain(g) ==
    /\ instances.calls[g].pc = "awaitChain"
    /\ instances' = [instances EXCEPT !.calls[g].pc = "awaitAbi"]
    /\ UNCHANGED <<tokenMap, lookup, ready, initState, priceVars, balReq>>
    /\ UNCHANGED <<tradeVars, pollVars>>

\* readFile returns: the router is built, init() returns, getInstance stores
\* the instance and returns what is stored; or readFile throws and
\* getInstance rejects with nothing stored
GetInstanceAbi(g) ==
    /\ instances.calls[g].pc = "awaitAbi"
    /\ LET network == instances.calls[g].network
           id == instances.calls[g].instance
       IN \/ instances' = [instances EXCEPT !.calls[g].pc = "done",
                                            !.calls[g].result = "ERROR"]
          \/ instances' = [instances EXCEPT
                             !.xInited[network] = @ + 1,
                             !.xInstances[network] = id,
                             !.calls[g].pc = "done",
                             !.calls[g].result = "OK",
                             !.calls[g].returned = id]
    /\ UNCHANGED <<tokenMap, lookup, ready, initState, priceVars, balReq>>
    /\ UNCHANGED <<tradeVars, pollVars>>

\* the symbols a caller can ask for
LookupSymbols == Symbols \cup {<<"E", "g">>, <<"u", "s">>}

\* getTokenForSymbol(symbol): the _tokenMap entry under that very key, or null
getTokenForSymbol(symbol) ==
    IF symbol \in DOMAIN tokenMap /\ tokenMap[symbol] # NoToken
    THEN tokenMap[symbol] ELSE NoToken

NoLookup == [first |-> <<>>, firstResult |-> NoToken,
             second |-> <<>>, secondResult |-> NoToken]

\* two getTokenBySymbol calls, one after the other; find() changes nothing
Resolve ==
    /\ \E s, t \in LookupSymbols :
          lookup' = [first |-> s, firstResult |-> getTokenBySymbol(s),
                     second |-> t, secondResult |-> getTokenBySymbol(t)]
    /\ UNCHANGED <<tokenMap, ready, initState, instances, priceVars, balReq>>
    /\ UNCHANGED <<tradeVars, pollVars>>

----------------------------------------------------------------------------
(* Receipts and the provider *)

Hashes == {"h1", "h2"}
Calls == {"p1", "p2"}

\* What provider.getTransaction resolved to. status "none" is a status that is
\* not an object; the other statuses are TransactionStatus objects.
NullReceipt == [kind |-> "null", hash |-> "", status |-> "none"]
UndefinedReceipt == [kind |-> "undefined", hash |-> "", status |-> "none"]
Receipt(h, st) == [kind |-> "tx", hash |-> h, status |-> st]
Throws == [kind |-> "throw", hash |-> "", status |-> "none"]

FinalStatuses == {"success", "fail"}

\* TransactionStatus predicates
isSuccessful(st) == st = "success"
isPending(st) == st = "pending"
isFailed(st) == st = "fail"
IsStatusObject(st) == st # "none"

\* The outcomes of one provider.getTransaction(h) call, given the chain.
ProviderAnswers(h) ==
    IF chainTx[h] = "notfound"
    THEN {Throws, NullReceipt, Receipt(h, "none")}
    ELSE {Throws, Receipt(h, chainTx[h])}

----------------------------------------------------------------------------
(* NodeCache({stdTTL}) as MultiversxBase uses it *)

NoEntry == [present |-> FALSE, value |-> UndefinedReceipt, t |-> 0]

\* cache.keys(): every stored key, expired or not, until it is deleted
CacheKeys == {h \in Hashes : cache[h].present}

\* an entry is expired once its time t is in the past
Expired(h) == cache[h].present /\ cache[h].t < now

\* cache.get(h): the value, or undefined for an absent or expired key
CacheGet(h) ==
    IF cache[h].present /\ ~Expired(h) THEN cache[h].value ELSE UndefinedReceipt

\* cache.get(h) deletes the entry it finds expired
CacheAfterGet(h) == IF Expired(h) THEN [cache EXCEPT ![h] = NoEntry] ELSE cache

\* cache.set(h, v) with the default ttl
CacheSet(h, v) == [cache EXCEPT ![h] = [present |-> TRUE, value |-> v,
                                        t |-> now + TTLTicks]]

----------------------------------------------------------------------------
(* MultiversxController.poll: the status classification *)

\* bug variant: only a successful status is told apart (pending reads as -1)
PollStatus_SuccessOnly(receipt) ==
    IF IsStatusObject(receipt.status) /\ isSuccessful(receipt.status) THEN 1 ELSE -1

\* poll() of the newer controller: the chain of ifs over txReceipt.status
PollStatus(receipt) ==
    LET s0 == -1
        s1 == IF ~IsStatusObject(receipt.status) THEN 0 ELSE s0
        s2 == IF IsStatusObject(receipt.status) /\ isSuccessful(receipt.status)
              THEN 1 ELSE s1
        s3 == IF IsStatusObject(receipt.status) /\ isPending(receipt.status)
              THEN 0 ELSE s2
        s4 == IF IsStatusObject(receipt.status) /\ isFailed(receipt.status)
              THEN -1 ELSE s3
    IN s4

\* poll() of multiversx.controllers.ts
PollStatusOld(receipt) ==
    IF IsStatusObject(receipt.status) /\ isSuccessful(receipt.status) THEN 1 ELSE -1

----------------------------------------------------------------------------
(* poll() and getTransactionReceipt(): one action per await *)

\* what a call finds, when it starts, of the latest poll / cache.set of its
\* hash (prev), and whether that was less than a TTL ago (fresh)
NoPrev == [known |-> FALSE, value |-> UndefinedReceipt, txStatus |-> 0, at |-> 0]

WithinTTL(prev) == prev.known /\ now - prev.at < TTLTicks

\* The outcomes of a provider.getTransaction(h) call in flight: the provider
\* reads the chain at some moment between the call (the chain had the hash
\* at asked)
\* and the return, and a final status never changes.
InFlightAnswers(h, asked) ==
    LET at(st) == IF st = "notfound"
                  THEN {Throws, NullReceipt, Receipt(h, "none")}
                  ELSE {Throws, Receipt(h, st)}
    IN at(asked) \cup ProviderAnswers(h)

\* the entry written at prev.at has outlived its TTL (stale, at call start)
PastTTL(prev) == prev.known /\ prev.at + TTLTicks < now

IdleCall ==
    [pc |-> "idle", op |-> "none", hash |-> "h1", block |-> -1,
     receipt |-> UndefinedReceipt, txStatus |-> 0, result |-> "none",
     fetched |-> 0, hit |-> FALSE, prev |-> NoPrev, fresh |-> FALSE,
     stale |-> FALSE, asked |-> "none"]

PollOps == {"poll", "pollOld"}

\* poll(body) is entered: getCurrentBlockNumber() is called
PollStart(p) ==
    /\ pollers[p].pc \in {"idle", "done"}
    /\ \E h \in Hashes, op \in PollOps :
          pollers' = [pollers EXCEPT ![p] =
                        [IdleCall EXCEPT !.pc = "block", !.op = op, !.hash = h,
                                         !.prev = last[h].poll,
                                         !.fresh = WithinTTL(last[h].poll)]]
    /\ UNCHANGED <<chainTx, cache, now, last>>
    /\ UNCHANGED <<tradeVars, extVars>>

\* getCurrentBlockNumber returns (or throws); getTransaction(txHash) goes
\* straight to provider.getTransaction
PollBlockReturn(p) ==
    /\ pollers[p].pc = "block"
    /\ \/ pollers' = [pollers EXCEPT ![p].pc = "done", ![p].result = "ERROR"]
       \/ pollers' = [pollers EXCEPT ![p].pc = "tx", ![p].block = now,
                                     ![p].fetched = @ + 1]
    /\ UNCHANGED <<chainTx, cache, now, last>>
    /\ UNCHANGED <<tradeVars, extVars>>

\* provider.getTransaction returns: txReceipt.status is classified
PollTxReturn(p) ==
    /\ pollers[p].pc = "tx"
    /\ \E answer \in ProviderAnswers(pollers[p].hash) :
          IF answer.kind # "tx"
          THEN \* a rejected promise, or a TypeError on reading .status of nothing
               /\ pollers' = [pollers EXCEPT ![p].pc = "done", ![p].result = "ERROR",
                                             ![p].receipt = answer]
               /\ last' = last
          ELSE LET txStatus == IF pollers[p].op = "poll" THEN PollStatus(answer)
                                                         ELSE PollStatusOld(answer)
               IN /\ pollers' = [pollers EXCEPT ![p].pc = "done", ![p].result = "OK",
                                                ![p].receipt = answer,
                                                ![p].txStatus = txStatus]
                  /\ last' = [last EXCEPT ![pollers[p].hash].poll =
                                [known |-> TRUE, value |-> answer,
                                 txStatus |-> txStatus,
                                 at |-> now]]
    /\ UNCHANGED <<chainTx, cache, now>>
    /\ UNCHANGED <<tradeVars, extVars>>

\* getTransactionReceipt(txHash) is entered: a cached key is answered from the
\* cache at once, otherwise provider.getTransaction is called
ReceiptStart(p) ==
    /\ pollers[p].pc \in {"idle", "done"}
    /\ \E h \in Hashes :
          LET call == [IdleCall EXCEPT !.op = "receipt", !.hash = h,
                                       !.prev = last[h].set,
                                       !.fresh = WithinTTL(last[h].set),
                                       !.stale = PastTTL(last[h].set),
                                       !.asked = chainTx[h]]
          IN IF h \in CacheKeys
             THEN /\ pollers' = [pollers EXCEPT ![p] =
                                   [call EXCEPT !.pc = "done", !.result = "OK",
                                                !.hit = TRUE,
                                                !.receipt = CacheGet(h)]]
                  /\ cache' = CacheAfterGet(h)
             ELSE /\ pollers' = [pollers EXCEPT ![p] =
                                   [call EXCEPT !.pc = "fetch", !.fetched = 1]]
                  /\ cache' = cache
    /\ UNCHANGED <<chainTx, now, last>>
    /\ UNCHANGED <<tradeVars, extVars>>

\* bug variant: an empty fetch result is not written to the cache
ReceiptFetchReturn_SkipEmpty(p) ==
    /\ pollers[p].pc = "fetch"
    /\ \E answer \in InFlightAnswers(pollers[p].hash, pollers[p].asked) :
          IF answer.kind = "throw"
          THEN /\ pollers' = [pollers EXCEPT ![p].pc = "done", ![p].result = "ERROR",
                                             ![p].receipt = answer]
               /\ UNCHANGED <<cache, last>>
          ELSE /\ pollers' = [pollers EXCEPT ![p].pc = "done", ![p].result = "OK",
                                             ![p].receipt = answer]
               /\ IF answer.kind = "tx" /\ answer.status # "none"
                  THEN /\ cache' = CacheSet(pollers[p].hash, answer)
                       /\ last' = [last EXCEPT ![pollers[p].hash].set =
                                     [known |-> TRUE, value |-> answer, txStatus |-> 0,
                                           at |-> now]]
                  ELSE UNCHANGED <<cache, last>>
    /\ UNCHANGED <<chainTx, now>>
    /\ UNCHANGED <<tradeVars, extVars>>

\* provider.getTransaction returns: the result is cached under txHash, whatever
\* it is, and returned; a rejection propagates and nothing is cached
ReceiptFetchReturn(p) ==
    /\ pollers[p].pc = "fetch"
    /\ \E answer \in InFlightAnswers(pollers[p].hash, pollers[p].asked) :
          IF answer.kind = "throw"
          THEN /\ pollers' = [pollers EXCEPT ![p].pc = "done", ![p].result = "ERROR",
                                             ![p].receipt = answer]
               /\ UNCHANGED <<cache, last>>
          ELSE /\ pollers' = [pollers EXCEPT ![p].pc = "done", ![p].result = "OK",
                                             ![p].receipt = answer]
               /\ cache' = CacheSet(pollers[p].hash, answer)
               /\ last' = [last EXCEPT ![pollers[p].hash].set =
                             [known |-> TRUE, value |-> answer, txStatus |-> 0,
                              at |-> now]]
    /\ UNCHANGED <<chainTx, now>>
    /\ UNCHANGED <<tradeVars, extVars>>

----------------------------------------------------------------------------
(* Environment of the receipt tracker *)

\* time passes
Tick ==
    /\ now < MaxTime
    /\ now' = now + 1
    /\ UNCHANGED <<chainTx, cache, pollers, last>>
    /\ UNCHANGED <<tradeVars, extVars>>

\* NodeCache's periodic check deletes the expired entries
CacheCheckData ==
    /\ \E h \in Hashes : Expired(h)
    /\ cache' = [h \in Hashes |-> IF Expired(h) THEN NoEntry ELSE cache[h]]
    /\ UNCHANGED <<chainTx, now, pollers, last>>
    /\ UNCHANGED <<tradeVars, extVars>>

\* the chain finalizes a pending transaction; a final status never changes
ChainFinalize ==
    /\ \E h \in Hashes, st \in FinalStatuses :
          /\ chainTx[h] = "pending"
          /\ chainTx' = [chainTx EXCEPT ![h] = st]
    /\ UNCHANGED <<cache, now, pollers, last>>
    /\ UNCHANGED <<tradeVars, extVars>>

PollInit ==
    /\ chainTx = [h \in Hashes |-> IF h = "h1" THEN "pending" ELSE "notfound"]
    /\ cache = [h \in Hashes |-> NoEntry]
    /\ now = 0
    /\ pollers = [p \in Calls |-> IdleCall]
    /\ last = [h \in Hashes |-> [poll |-> NoPrev, set |-> NoPrev]]

\* the trade side at rest
TradeIdle ==
    /\ tokenList = LoadedTokens
    /\ allowedSlippage = Fraction(1, 100)
    /\ req = [r \in AllReqs |-> IdleReq]
    /\ chainNonce = 0
    /\ sent = <<>>

TradeInit ==
    /\ tokenList = LoadedTokens
    /\ allowedSlippage \in SlippageConfigs
    /\ req = [r \in AllReqs |-> IdleReq]
    /\ chainNonce \in 0 .. (MaxNonce - 1)
    /\ sent = <<>>

\* price(), balances() and the directory at rest, the token list loaded
ExtIdle ==
    /\ priceReq = IdlePrice
    /\ lastPrice = NoLastPrice
    /\ pool = [id \in TokenIds |-> 1000]
    /\ balReq = IdleBal
    /\ tokenMap = TokenMapAfter(EmptyTokenMap, LoadedTokens)
    /\ lookup = NoLookup
    /\ ready = TRUE
    /\ initState = InitOver
    /\ instances = InstancesUp

Init == TradeInit /\ PollInit /\ ExtIdle

Next == \E r \in TradeReqs : TradeStep(r)

Spec == Init /\ [][Next]_vars

\* one trade request while the wallet's nonce moves on chain
NextNonce ==
    \/ \E r \in TradeReqs : TradeStep(r)
    \/ NonceAdvance

SpecNonce == Init /\ [][NextNonce]_vars

\* two trade() requests of one wallet served side by side, each a market order
\* for one EG against US
TwinOrder(r) ==
    \/ req[r].pc = "idle"
    \/ /\ req[r].address = Wallet
       /\ req[r].base = EG
       /\ req[r].quote = US
       /\ req[r].amount = 1
       /\ req[r].limitPrice = NoLimit

NextTwin == \E r \in AllReqs : TradeStep(r) /\ TwinOrder(r)'

SpecTwin == Init /\ [][NextTwin]_vars

\* poll() requests, one after the other or overlapping
PollCalls == {"p1"}

NextPoll ==
    \/ \E p \in PollCalls : PollStart(p) \/ PollBlockReturn(p) \/ PollTxReturn(p)
    \/ Tick
    \/ ChainFinalize

InitPoll == TradeIdle /\ PollInit /\ ExtIdle

SpecPoll == InitPoll /\ [][NextPoll]_vars

\* getTransactionReceipt() calls, one after the other or overlapping
ReceiptCalls == Calls

NextReceipt ==
    \/ \E p \in ReceiptCalls : ReceiptStart(p) \/ ReceiptFetchReturn(p)
    \/ Tick
    \/ CacheCheckData
    \/ ChainFinalize

SpecReceipt == InitPoll /\ [][NextReceipt]_vars

\* one price() request against a pair whose reserves move
InitPrice ==
    /\ TradeIdle /\ PollInit
    /\ priceReq = IdlePrice
    /\ lastPrice = NoLastPrice
    /\ pool \in [TokenIds -> Reserves]
    /\ balReq = IdleBal
    /\ tokenMap = TokenMapAfter(EmptyTokenMap, LoadedTokens)
    /\ lookup = NoLookup
    /\ ready = TRUE
    /\ initState = InitOver
    /\ instances = InstancesUp

NextPrice ==
    \/ PriceStart
    \/ PriceGetPairReturn
    \/ PriceBaseReserveReturn
    \/ PriceQuoteReserveReturn
    \/ PoolSwap

SpecPrice == InitPrice /\ [][NextPrice]_vars

\* a price() request and a trade() request, up to its quote, served side by
\* side
InitFail == TradeIdle /\ PollInit /\ ExtIdle

NextFail ==
    \/ \E r \in TradeReqs :
          \/ TradeStart(r)
          \/ GetWalletReturn(r)
          \/ GetPairReturn(r)
          \/ GetAmountReturn(r)
    \/ PriceStart
    \/ PriceGetPairReturn
    \/ PriceBaseReserveReturn
    \/ PriceQuoteReserveReturn

SpecFail == InitFail /\ [][NextFail]_vars

\* price() requests against a pair other traders swap on
InitRace ==
    /\ TradeIdle /\ PollInit
    /\ priceReq = IdlePrice
    /\ lastPrice = NoLastPrice
    /\ pool \in PoolStates
    /\ balReq = IdleBal
    /\ tokenMap = TokenMapAfter(EmptyTokenMap, LoadedTokens)
    /\ lookup = NoLookup
    /\ ready = TRUE
    /\ initState = InitOver
    /\ instances = InstancesUp

NextRace ==
    \/ PriceStart
    \/ PriceGetPairReturn
    \/ PriceBaseReserveReturn
    \/ PriceQuoteReserveReturn
    \/ PoolTrade

SpecRace == InitRace /\ [][NextRace]_vars

\* price() requests one after the other against a pair nobody else trades on
InitQuiet ==
    /\ InitPrice
    /\ \A id \in TokenIds : pool[id] > 0

NextQuiet ==
    \/ PriceStart
    \/ PriceGetPairReturn
    \/ PriceBaseReserveReturn
    \/ PriceQuoteReserveReturn
    \/ PriceAgain

SpecQuiet == InitQuiet /\ [][NextQuiet]_vars

\* one balances() request
NextBal ==
    \/ BalStart
    \/ BalGetWalletReturn
    \/ BalTokenReturn
    \/ BalAllReturn

SpecBal == InitPoll /\ [][NextBal]_vars

\* the directory: loaded by init() from any source list, then looked up
InitDir ==
    /\ tokenList = <<>>
    /\ allowedSlippage = Fraction(1, 100)
    /\ req = [r \in AllReqs |-> IdleReq]
    /\ chainNonce = 0
    /\ sent = <<>>
    /\ PollInit
    /\ priceReq = IdlePrice
    /\ lastPrice = NoLastPrice
    /\ pool = [id \in TokenIds |-> 1000]
    /\ balReq = IdleBal
    /\ tokenMap = EmptyTokenMap
    /\ lookup = NoLookup
    /\ ready = FALSE
    /\ initState = InitNotCalled
    /\ instances = InstancesUp

NextDir ==
    \/ InitLoadTokens
    \/ Resolve

SpecDir == InitDir /\ [][NextDir]_vars

\* getInstance calls on a server that has just started
InitInst ==
    /\ TradeIdle /\ PollInit
    /\ priceReq = IdlePrice
    /\ lastPrice = NoLastPrice
    /\ pool = [id \in TokenIds |-> 1000]
    /\ balReq = IdleBal
    /\ tokenMap = EmptyTokenMap
    /\ lookup = NoLookup
    /\ ready = FALSE
    /\ initState = InitNotCalled
    /\ instances = NoInstances

NextInst ==
    \E g \in GetCalls :
        \/ GetInstanceEnter(g)
        \/ GetInstanceChain(g)
        \/ GetInstanceAbi(g)

SpecInst == InitInst /\ [][NextInst]_vars

\* init() calls on a new adapter, one after the other or overlapping
NextInit ==
    \E c \in InitCalls :
        \/ InitEnter(c)
        \/ InitResume(c)
        \/ LoadTokensReturn(c)
        \/ InitFinish(c)

SpecInit == InitDir /\ [][NextInit]_vars

----------------------------------------------------------------------------
(* Properties of trade() *)

\* the request has passed the point where trade() computes estimatedPrice
PriceKnown(r) == req[r].estimatedPrice # NoPrice

SentBy(r) == {i \in DOMAIN sent : sent[i].by = r}

NothingBuiltOrSent(r) ==
    /\ req[r].execCalls = 0
    /\ req[r].nonceFetches = 0
    /\ req[r].signCalls = 0
    /\ req[r].sendCalls = 0
    /\ req[r].tx = NoTx
    /\ SentBy(r) = {}

\* C1: a BUY with a limitPrice whose estimatedPrice is above the limit ends in
\* the exceeds-limit error, and executeTrade, sign and sendTransaction are
\* never called in that request.
C1_BuyAboveLimitRejected ==
    \A r \in AllReqs :
        ( /\ PriceKnown(r)
          /\ req[r].side = "BUY"
          /\ req[r].limitPrice # NoLimit
          /\ DecGt(req[r].estimatedPrice, req[r].limitPrice) )
        => /\ req[r].pc = "done"
           /\ req[r].result = SWAP_PRICE_EXCEEDS_LIMIT_PRICE
           /\ NothingBuiltOrSent(r)

\* estimatedPrice 105 against limitPrice 100 on a BUY, rejected
C1_Witness ==
    \E r \in AllReqs :
        /\ req[r].side = "BUY"
        /\ req[r].estimatedPrice = Dec(1050, 1)
        /\ req[r].limitPrice = Dec(100, 0)
        /\ req[r].result = SWAP_PRICE_EXCEEDS_LIMIT_PRICE

\* C2: a SELL with a limitPrice is rejected with the below-limit error, with
\* nothing built, signed or sent, exactly when estimatedPrice < limitPrice;
\* with estimatedPrice >= limitPrice the request goes on to executeTrade.
C2_SellBelowLimitRejected ==
    \A r \in AllReqs :
        ( /\ PriceKnown(r)
          /\ req[r].side = "SELL"
          /\ req[r].limitPrice # NoLimit )
        => IF DecLt(req[r].estimatedPrice, req[r].limitPrice)
           THEN /\ req[r].pc = "done"
                /\ req[r].result = SWAP_PRICE_LOWER_THAN_LIMIT_PRICE
                /\ NothingBuiltOrSent(r)
           ELSE /\ req[r].result # SWAP_PRICE_LOWER_THAN_LIMIT_PRICE
                /\ req[r].execCalls = 1
                /\ "LIMIT_CHECKED" \in {req[r].phases[i] : i \in DOMAIN req[r].phases}

\* estimatedPrice 105 against limitPrice 100 on a SELL, submitted
C2_Witness ==
    \E r \in AllReqs :
        /\ req[r].side = "SELL"
        /\ req[r].estimatedPrice = Dec(1050, 1)
        /\ req[r].limitPrice = Dec(100, 0)
        /\ req[r].result = "OK"
        /\ req[r].tx.signed
        /\ SentBy(r) # {}

\* C3: a request without limitPrice is never rejected by the limit check: once
\* quoted, BUY and SELL alike go on to executeTrade, whatever the estimate.
C3_NoLimitNeverRejects ==
    \A r \in AllReqs :
        req[r].limitPrice = NoLimit
        => /\ req[r].result \notin {SWAP_PRICE_EXCEEDS_LIMIT_PRICE,
                                    SWAP_PRICE_LOWER_THAN_LIMIT_PRICE}
           /\ PriceKnown(r) => /\ req[r].execCalls = 1
                               /\ req[r].phases[2] = "LIMIT_CHECKED"

C3_Witness ==
    \E r \in AllReqs :
        /\ req[r].limitPrice = NoLimit
        /\ req[r].side = "BUY"
        /\ PriceKnown(r)
        /\ req[r].result = "OK"
        /\ SentBy(r) # {}

IsPrefix(s, t) == Len(s) <= Len(t) /\ \A i \in 1 .. Len(s) : s[i] = t[i]

\* C4: a request passes QUOTED, LIMIT_CHECKED, SIGNED, SUBMITTED in that order
\* (or QUOTED, REJECTED); sendTransaction is called only with the estimate
\* obtained, the limit check passed and the signature applied; nothing of a
\* request changes once it has ended.
C4_PhaseOrder ==
    /\ [](\A r \in AllReqs :
            /\ \/ IsPrefix(req[r].phases,
                           <<"QUOTED", "LIMIT_CHECKED", "SIGNED", "SUBMITTED">>)
               \/ req[r].phases = <<"QUOTED", "REJECTED">>
            /\ (req[r].sendCalls > 0 \/ SentBy(r) # {})
                  => /\ IsPrefix(<<"QUOTED", "LIMIT_CHECKED", "SIGNED">>, req[r].phases)
                     /\ req[r].trade # NoTrade
                     /\ PriceKnown(r)
                     /\ \A i \in SentBy(r) : sent[i].tx.signed
            /\ (Len(req[r].phases) > 0
                  /\ req[r].phases[Len(req[r].phases)] \in {"SUBMITTED", "REJECTED"})
                  => req[r].pc = "done")
    /\ [][\A r \in AllReqs :
            req[r].pc = "done"
              => /\ req'[r] = req[r]
                 /\ \A i \in DOMAIN sent' : sent'[i].by = r => i \in DOMAIN sent]_vars

C4_Witness ==
    \E r \in AllReqs :
        req[r].phases = <<"QUOTED", "LIMIT_CHECKED", "SIGNED", "SUBMITTED">>

\* C5: one trade request calls provider.sendTransaction at most once, also when
\* the submission fails.
C5_AtMostOneSubmission ==
    \A r \in AllReqs :
        /\ req[r].sendCalls <= 1
        /\ Cardinality(SentBy(r)) <= 1
        /\ Cardinality(SentBy(r)) = req[r].sendCalls

\* a submission that failed, the request over
C5_Witness ==
    \E r \in AllReqs :
        /\ req[r].pc = "done"
        /\ req[r].failedAt = "sendTransaction"
        /\ req[r].sendCalls = 1

\* C6: a failure of a provider call after the quote (nonce fetch, signing,
\* sendTransaction) reaches the caller as a classified error kind, a failed
\* submission as the trade-execution error.
C6_ProviderFailuresClassified ==
    \A r \in AllReqs :
        req[r].failedAt \in {"getAccount", "sign", "sendTransaction"}
        => /\ req[r].result \in ClassifiedErrors
           /\ req[r].failedAt = "sendTransaction" => req[r].result = TRADE_FAILED

----------------------------------------------------------------------------
(* Properties of poll() and getTransactionReceipt() *)

PollDone(p) == pollers[p].op = "poll" /\ pollers[p].pc = "done"

\* C7: a poll of a hash whose previous poll, less than a TTL earlier, saw the
\* transaction finalized returns the same txStatus and makes no provider
\* transaction fetch.
C7_SecondPollFromCache ==
    \A p \in Calls :
        ( /\ PollDone(p)
          /\ pollers[p].fresh
          /\ pollers[p].prev.value.status \in FinalStatuses )
        => /\ pollers[p].result = "OK" => pollers[p].txStatus = pollers[p].prev.txStatus
           /\ pollers[p].fetched = 0

\* the part of C7 the code does satisfy: the same txStatus both times
C7_SameStatusTwice ==
    \A p \in Calls :
        ( /\ PollDone(p)
          /\ pollers[p].result = "OK"
          /\ pollers[p].fresh
          /\ pollers[p].prev.value.status \in FinalStatuses )
        => pollers[p].txStatus = pollers[p].prev.txStatus

\* C8: getTransactionReceipt answers a cached key from the cache with no
\* provider call; on a miss it fetches exactly once and stores what it fetched
\* under the hash, an empty result too; a lookup started less than a TTL after
\* such a store is a hit and makes no provider call.
C8_CacheFirst ==
    /\ [](\A p \in Calls :
            pollers[p].op = "receipt"
            => /\ pollers[p].hit => pollers[p].fetched = 0 /\ pollers[p].pc = "done"
               /\ ~pollers[p].hit => pollers[p].fetched = 1
               /\ pollers[p].fresh
                    => /\ pollers[p].hit
                       /\ pollers[p].fetched = 0
                       /\ pollers[p].receipt = pollers[p].prev.value)
    /\ [][\A p \in Calls :
            /\ ( /\ pollers[p].pc = "fetch"
                 /\ pollers'[p].pc = "done"
                 /\ pollers'[p].result = "OK" )
               => /\ cache'[pollers[p].hash].present
                  /\ cache'[pollers[p].hash].value = pollers'[p].receipt
                  /\ cache'[pollers[p].hash].t = now + TTLTicks
                  /\ \A h \in Hashes \ {pollers[p].hash} : cache'[h] = cache[h]
            /\ ( /\ pollers[p].pc # "fetch"
                 /\ pollers'[p].op = "receipt"
                 /\ pollers'[p] # pollers[p] )
               => LET h == pollers'[p].hash
                  IN IF cache[h].present
                     THEN /\ pollers'[p].hit
                          /\ cache[h].t >= now => pollers'[p].receipt = cache[h].value
                     ELSE pollers'[p].pc = "fetch"]_vars

\* an empty result was cached, and a later lookup within the TTL is served it
C8_Witness ==
    \E p \in Calls :
        /\ pollers[p].op = "receipt"
        /\ pollers[p].pc = "done"
        /\ pollers[p].hit
        /\ pollers[p].fresh
        /\ pollers[p].receipt = NullReceipt
        /\ pollers[p].fetched = 0

\* C9: poll() reports 1 for a successful status, 0 for a pending one, -1 for
\* a failed one, and never anything but -1, 0 or 1.
C9_ThreeWayStatus ==
    \A p \in Calls :
        (PollDone(p) /\ pollers[p].result = "OK")
        => LET st == pollers[p].receipt.status
           IN /\ st = "success" => pollers[p].txStatus = 1
              /\ st = "pending" => pollers[p].txStatus = 0
              /\ st = "fail" => pollers[p].txStatus = -1
              /\ pollers[p].txStatus \in {-1, 0, 1}

\* a pending receipt polled after the same hash was polled before
C9_Witness ==
    \E p \in Calls :
        /\ PollDone(p)
        /\ pollers[p].result = "OK"
        /\ pollers[p].receipt.status = "pending"
        /\ pollers[p].txStatus = 0
        /\ pollers[p].prev.known

\* C10: poll() never fails; when the lookup finds nothing (an empty receipt,
\* or a status that is not a status object) it returns txStatus -1 with the
\* current block.
C10_NothingFoundIsMinusOne ==
    \A p \in Calls :
        ( /\ PollDone(p)
          /\ \/ pollers[p].receipt.kind = "null"
             \/ pollers[p].receipt.kind = "tx" /\ pollers[p].receipt.status = "none" )
        => /\ pollers[p].result = "OK"
           /\ pollers[p].txStatus = -1
           /\ pollers[p].block >= 0

\* C11: once the cached entry of a hash has outlived its TTL,
\* getTransactionReceipt(hash) treats the hash as a miss: it performs a live
\* fetch, and returns neither the expired value nor an empty value in its
\* place.
C11_ExpiredEntryIsMiss ==
    \A p \in Calls :
        (pollers[p].op = "receipt" /\ pollers[p].stale)
            => /\ ~pollers[p].hit
               /\ pollers[p].fetched = 1
               /\ (pollers[p].pc = "done" /\ pollers[p].result = "OK")
                     => pollers[p].receipt.kind # "undefined"

----------------------------------------------------------------------------
(* Properties of price() and getPrice() *)

\* the request names a symbol the directory does not hold
PriceSymbolUnknown ==
    \/ getTokenBySymbol(priceReq.base) = NoToken
    \/ getTokenBySymbol(priceReq.quote) = NoToken

\* C12: a price request whose base or quote symbol is not in the directory
\* fails with the token-not-supported error, and no pool or reserve query is
\* issued for it.
C12_UnknownSymbolNoPoolQuery ==
    (priceReq.pc # "idle" /\ PriceSymbolUnknown)
        => /\ priceReq.pc = "done"
           /\ priceReq.result = TOKEN_NOT_SUPPORTED
           /\ priceReq.pairQueries = 0
           /\ priceReq.reserveQueries = 0

C12_Witness ==
    /\ priceReq.pc = "done"
    /\ priceReq.quote = DO
    /\ getTokenBySymbol(priceReq.base) # NoToken
    /\ priceReq.result = TOKEN_NOT_SUPPORTED
    /\ priceReq.pairQueries = 0

----------------------------------------------------------------------------
(* Properties of the error paths of trade() and balances() *)

\* the trade request names a symbol the directory does not hold
TradeSymbolUnknown(r) ==
    \/ getTokenBySymbol(req[r].base) = NoToken
    \/ getTokenBySymbol(req[r].quote) = NoToken

\* C13: a trade request (with a loadable wallet) that names an unknown symbol
\* fails with the token-not-supported error kind and no other, and no estimate
\* query, signing or submission happens for it.
C13_TradeUnknownSymbolKind ==
    \A r \in TradeReqs :
        ( /\ req[r].pc \notin {"idle", "getWallet"}
          /\ req[r].address = Wallet
          /\ TradeSymbolUnknown(r) )
        => /\ req[r].pc = "done"
           /\ req[r].result = TOKEN_NOT_SUPPORTED
           /\ req[r].pairQueries = 0
           /\ req[r].amountQueries = 0
           /\ NothingBuiltOrSent(r)

\* C14: a balances request whose symbol list holds a symbol absent from the
\* directory does not succeed with a result that omits that symbol.
C14_BalancesUnknownSymbolFails ==
    (balReq.pc = "done" /\ balReq.result = "OK")
        => \A i \in DOMAIN balReq.tokenSymbols :
              /\ getTokenBySymbol(balReq.tokenSymbols[i]) # NoToken
              /\ balReq.balances[balReq.tokenSymbols[i]] # NoValue

\* C15: a trade request whose wallet cannot be loaded fails with the
\* wallet-load-failure error kind, and no token resolution, pool query,
\* signing or submission happens for it.
C15_TradeWalletFailureKind ==
    \A r \in TradeReqs :
        ( /\ req[r].pc \notin {"idle", "getWallet"}
          /\ req[r].address # Wallet )
        => /\ req[r].pc = "done"
           /\ req[r].result = LOAD_WALLET_ERROR
           /\ req[r].baseToken = NoToken
           /\ req[r].quoteToken = NoToken
           /\ req[r].pairQueries = 0
           /\ req[r].amountQueries = 0
           /\ NothingBuiltOrSent(r)

----------------------------------------------------------------------------
(* Properties of the token directory *)

\* C16: getTokenBySymbol is case-insensitive and read-only: two symbols that
\* differ only in letter case resolve to the same token (or both to nothing),
\* and a lookup changes neither the token list nor the token map nor _ready.
C16_CaseInsensitiveReadOnly ==
    /\ [](ToUpperCase(lookup.first) = ToUpperCase(lookup.second)
             => lookup.firstResult = lookup.secondResult)
    /\ [][lookup' # lookup => /\ tokenList' = tokenList
                              /\ tokenMap' = tokenMap
                              /\ ready' = ready]_vars

C16_Witness ==
    /\ ready
    /\ Len(tokenList) >= 2
    /\ lookup.first = eg
    /\ lookup.second = <<"E", "g">>
    /\ lookup.firstResult = EGToken
    /\ lookup.secondResult = EGToken

\* C17: after loadTokens, whatever the source list, the directory holds at
\* most one token identity per (symbol, chainId) pair, and every token in it
\* has the adapter's chain id.
C17_OneIdentityPerSymbol ==
    ready =>
        /\ \A i, j \in DOMAIN tokenList :
              ( /\ tokenList[i].symbol = tokenList[j].symbol
                /\ tokenList[i].chainId = tokenList[j].chainId )
              => tokenList[i].identifier = tokenList[j].identifier
        /\ \A i \in DOMAIN tokenList : tokenList[i].chainId = ChainId

----------------------------------------------------------------------------
(* Properties of the price computation *)

PriceDone == priceReq.pc = "done" /\ priceReq.result = "OK"

\* (quoteReserve / 10^qd) / (baseReserve / 10^bd) as one exact ratio, rounded
\* once to PriceDigits fractional digits
ExactPrice(baseReserve, bd, quoteReserve, qd) ==
    DivRound(quoteReserve * Pow10(bd), baseReserve * Pow10(qd), PriceDigits)

\* C18: for positive reserves, getPrice returns
\* (quoteReserve / 10^quoteDecimals) / (baseReserve / 10^baseDecimals) rendered
\* with exactly 9 fractional digits; 100 base tokens against 500 quote tokens
\* give 5.000000000.
C18_PriceIsReserveRatio ==
    (PriceDone /\ priceReq.baseReserves > 0 /\ priceReq.quoteReserves > 0)
        => /\ priceReq.price.kind = "num"
           /\ Len(priceReq.price.frac) = PriceDigits
           /\ priceReq.price =
                 ExactPrice(priceReq.baseReserves, priceReq.baseToken.decimals,
                            priceReq.quoteReserves, priceReq.quoteToken.decimals)
           /\ ( /\ priceReq.baseReserves = 100 * Pow10(priceReq.baseToken.decimals)
                /\ priceReq.quoteReserves = 500 * Pow10(priceReq.quoteToken.decimals) )
              => priceReq.price = Num(5, <<0, 0, 0, 0, 0, 0, 0, 0, 0>>)

C18_Witness ==
    /\ PriceDone
    /\ priceReq.baseToken = EGToken
    /\ priceReq.quoteToken = USToken
    /\ priceReq.baseReserves = 1000
    /\ priceReq.quoteReserves = 50000
    /\ priceReq.price = Num(5, <<0, 0, 0, 0, 0, 0, 0, 0, 0>>)

\* C19: when a reserve is zero getPrice fails, and the price request ends in
\* an error: an infinite, NaN or zero price is never returned as a success.
C19_ZeroReserveIsError ==
    ( /\ priceReq.pc = "done"
      /\ priceReq.baseReserves = 0 \/ priceReq.quoteReserves = 0 )
    => /\ priceReq.result \in {PRICE_FAILED, UNKNOWN_ERROR}
       /\ priceReq.price = NoValue

----------------------------------------------------------------------------
(* Properties of the slippage bound *)

\* C20: for an EXACT_INPUT trade the minimum output written into the
\* transaction is floor(expectedOutput / (1 + tolerance)), and so is never
\* greater than expectedOutput.
C20_MinOutIsFloor ==
    \A r \in TradeReqs :
        req[r].tx.fn = "swapTokensFixedInput"
        => LET expectedOutput == req[r].trade.expectedAmount
           IN /\ req[r].tx.arg = (expectedOutput * allowedSlippage.den)
                                  \div (allowedSlippage.den + allowedSlippage.num)
              /\ req[r].tx.arg <= expectedOutput

----------------------------------------------------------------------------
(* Properties of executeTrade *)

\* C21: with a malformed slippage tolerance configured, a trade request (BUY
\* or SELL) fails with the configuration error before any on-chain
\* interaction: no pair lookup, amount query, nonce fetch or submission
\* precedes the error.
C21_MalformedSlippageFailsFirst ==
    ~SlippageIsValid(allowedSlippage) =>
        \A r \in TradeReqs :
            /\ req[r].pairQueries = 0
            /\ req[r].amountQueries = 0
            /\ req[r].nonceFetches = 0
            /\ req[r].sendCalls = 0
            /\ req[r].result # "OK"

\* C22: a transaction built by executeTrade carries the account nonce the
\* provider reports during that build, after the estimate was produced (not a
\* nonce known at quote time), and is bound to the wallet's address as sender
\* and to the adapter's chain id.
C22_FreshNonceAndBinding ==
    /\ [](\A r \in TradeReqs :
            req[r].tx.nonce # -1
            => /\ req[r].tx.sender = req[r].address
               /\ req[r].tx.sender = Wallet
               /\ req[r].tx.chainId = ChainId
               /\ req[r].trade # NoTrade
               /\ req[r].nonceFetches = 1)
    /\ [][\A r \in TradeReqs :
            (req[r].tx.nonce = -1 /\ req'[r].tx.nonce # -1)
            => /\ req[r].pc = "getAccount"
               /\ req'[r].tx.nonce = chainNonce]_vars

C22_Witness ==
    \E r \in TradeReqs :
        /\ req[r].pc = "send"
        /\ req[r].tx.nonce = chainNonce
        /\ req[r].quoteNonce >= 0
        /\ req[r].tx.nonce > req[r].quoteNonce

\* C23: for an EXACT_OUTPUT (buy) trade the amount transferred with the
\* transaction is the quoted input amount plus 1%, rounded to an integer, so
\* never less than the quoted input amount; the requested output amount is
\* passed unchanged.
C23_BuyBuffer ==
    \A r \in TradeReqs :
        req[r].tx.fn = "swapTokensFixedOutput"
        => LET quoted == req[r].trade.inputAmount
               transfer == req[r].tx.transfer
           IN /\ req[r].trade.tradeType = "EXACT_OUTPUT"
              /\ transfer >= quoted
              /\ 100 * transfer > 101 * quoted - 50
              /\ 100 * transfer <= 101 * quoted + 50
              /\ req[r].tx.arg = req[r].trade.outputAmount
              /\ req[r].tx.arg = req[r].amount * Pow10(req[r].baseToken.decimals)

C23_Witness ==
    \E r \in TradeReqs :
        /\ req[r].pc = "send"
        /\ req[r].side = "BUY"
        /\ req[r].trade.inputAmount = 10010
        /\ req[r].tx.transfer = 10110
        /\ req[r].tx.arg = 20

----------------------------------------------------------------------------
(* Properties of the estimates *)

\* C24: estimateSellTrade(base, quote, amount) returns an EXACT_INPUT estimate
\* with inputToken base, outputToken quote, inputAmount the requested amount,
\* and outputAmount exactly what the pair contract reported.
C24_SellEstimate ==
    \A r \in TradeReqs :
        (req[r].trade # NoTrade /\ req[r].side = "SELL")
        => /\ req[r].trade.tradeType = "EXACT_INPUT"
           /\ req[r].trade.inputToken = req[r].baseToken.identifier
           /\ req[r].trade.outputToken = req[r].quoteToken.identifier
           /\ req[r].trade.inputAmount
                 = req[r].amount * Pow10(req[r].baseToken.decimals)
           /\ req[r].trade.outputAmount = req[r].reported
           /\ req[r].trade.expectedAmount = req[r].reported

C24_Witness ==
    \E r \in TradeReqs :
        /\ req[r].pc = "quoted"
        /\ req[r].side = "SELL"
        /\ req[r].base = EG /\ req[r].quote = US
        /\ req[r].amount = 2
        /\ req[r].reported = 10500
        /\ req[r].trade.inputToken = "EG-id"
        /\ req[r].trade.inputAmount = 20
        /\ req[r].trade.outputAmount = 10500

\* C25: estimateBuyTrade(quote, base, amount) returns an EXACT_OUTPUT estimate
\* with inputToken quote, outputToken base, outputAmount the requested amount
\* of base, and inputAmount exactly what the pair contract reported as
\* required.
C25_BuyEstimate ==
    \A r \in TradeReqs :
        (req[r].trade # NoTrade /\ req[r].side = "BUY")
        => /\ req[r].trade.tradeType = "EXACT_OUTPUT"
           /\ req[r].trade.inputToken = req[r].quoteToken.identifier
           /\ req[r].trade.outputToken = req[r].baseToken.identifier
           /\ req[r].trade.outputAmount
                 = req[r].amount * Pow10(req[r].baseToken.decimals)
           /\ req[r].trade.inputAmount = req[r].reported
           /\ req[r].trade.expectedAmount = req[r].reported

C25_Witness ==
    \E r \in TradeReqs :
        /\ req[r].pc = "quoted"
        /\ req[r].side = "BUY"
        /\ req[r].base = US /\ req[r].quote = EG
        /\ req[r].amount = 1
        /\ req[r].reported = 10010
        /\ req[r].trade.inputToken = "EG-id"
        /\ req[r].trade.inputAmount = 10010
        /\ req[r].trade.outputAmount = 100

----------------------------------------------------------------------------
(* Reciprocity of the price *)

\* Naturals of any size as sequences of digits, least significant first.
RECURSIVE NatDigits(_)
NatDigits(n) == IF n = 0 THEN <<>> ELSE <<n % 10>> \o NatDigits(n \div 10)

Reverse(seq) == [i \in 1 .. Len(seq) |-> seq[Len(seq) + 1 - i]]

RestOf(a) == IF a = <<>> THEN <<>> ELSE Tail(a)
LowDigit(a) == IF a = <<>> THEN 0 ELSE Head(a)

RECURSIVE BigAdd(_, _, _)
BigAdd(a, b, carry) ==
    IF a = <<>> /\ b = <<>>
    THEN (IF carry = 0 THEN <<>> ELSE <<carry>>)
    ELSE LET t == LowDigit(a) + LowDigit(b) + carry
         IN <<t % 10>> \o BigAdd(RestOf(a), RestOf(b), t \div 10)

RECURSIVE BigMulDigit(_, _, _)
BigMulDigit(a, d, carry) ==
    IF a = <<>> THEN NatDigits(carry)
    ELSE LET t == Head(a) * d + carry
         IN <<t % 10>> \o BigMulDigit(Tail(a), d, t \div 10)

RECURSIVE BigMul(_, _)
BigMul(a, b) ==
    IF b = <<>> THEN <<>>
    ELSE BigAdd(BigMulDigit(a, Head(b), 0), <<0>> \o BigMul(a, Tail(b)), 0)

\* a <= b, both without leading zeros
RECURSIVE BigLeqTrimmed(_, _)
BigLeqTrimmed(a, b) ==
    IF Len(a) # Len(b) THEN Len(a) < Len(b)
    ELSE IF a = <<>> THEN TRUE
    ELSE LET n == Len(a)
         IN IF a[n] # b[n] THEN a[n] < b[n]
            ELSE BigLeqTrimmed(StripZeros(SubSeq(a, 1, n - 1)),
                               StripZeros(SubSeq(b, 1, n - 1)))

BigLeq(a, b) == BigLeqTrimmed(StripZeros(a), StripZeros(b))

\* |a - b| <= c
BigWithin(a, b, c) == BigLeq(a, BigAdd(b, c, 0)) /\ BigLeq(b, BigAdd(a, c, 0))

\* a price with PriceDigits fractional digits, in units of the last digit
PriceUnits(x) == Reverse(x.frac) \o NatDigits(x.int)

\* 1 in units of the last digit of a product of two prices (10^18)
ProductOne == [i \in 1 .. (2 * PriceDigits + 1) |->
                 IF i = 2 * PriceDigits + 1 THEN 1 ELSE 0]

\* the current request answered the pair the previous one answered, the
\* other way round, from the same reserves
ReversePairPriced ==
    /\ PriceDone
    /\ lastPrice.known
    /\ lastPrice.base = priceReq.quoteToken.identifier
    /\ lastPrice.quote = priceReq.baseToken.identifier
    /\ lastPrice.baseReserves = priceReq.quoteReserves
    /\ lastPrice.quoteReserves = priceReq.baseReserves
    /\ priceReq.baseReserves > 0 /\ priceReq.quoteReserves > 0

----------------------------------------------------------------------------
(* The two reserve reads of getPrice *)

\* the reserves a finished getPrice used were together in some pool state
ReservesCoexisted ==
    \E state \in PoolStates :
        /\ state[priceReq.baseToken.identifier] = priceReq.baseReserves
        /\ state[priceReq.quoteToken.identifier] = priceReq.quoteReserves

\* C27: the two reserve reads of one getPrice are separate queries, the base
\* reserve first and the quote reserve after a suspension, each answered from
\* the pool as it is when the query returns; so when another trade changes
\* the pool in between, the price is computed from two reserves that were never
\* together in one pool state (the witness).
C27_ReserveReadsNotAtomic ==
    /\ [](pool \in PoolStates)
    /\ [](priceReq.pc = "getReserveBase"
            => priceReq.baseReserves = -1 /\ priceReq.reserveQueries = 1)
    /\ [](priceReq.pc = "getReserveQuote"
            => /\ priceReq.baseReserves >= 0
               /\ priceReq.quoteReserves = -1
               /\ priceReq.reserveQueries = 2)
    /\ [][ /\ (priceReq.pc = "getReserveBase" /\ priceReq'.pc = "getReserveQuote")
              => priceReq'.baseReserves = pool[priceReq.baseToken.identifier]
           /\ (priceReq.pc = "getReserveQuote" /\ priceReq'.result = "OK")
              => /\ priceReq'.baseReserves = priceReq.baseReserves
                 /\ priceReq'.quoteReserves = pool[priceReq.quoteToken.identifier]
                 /\ priceReq'.price =
                       PoolPrice(priceReq'.baseReserves,
                                 priceReq.baseToken.decimals,
                                 priceReq'.quoteReserves,
                                 priceReq.quoteToken.decimals) ]_vars

C27_Witness ==
    /\ PriceDone
    /\ priceReq.baseToken = EGToken
    /\ priceReq.baseReserves = 1000
    /\ priceReq.quoteReserves = 25000
    /\ ~ReservesCoexisted
    /\ priceReq.price = Num(2, <<5, 0, 0, 0, 0, 0, 0, 0, 0>>)

----------------------------------------------------------------------------
(* Concurrent getTransactionReceipt calls and a stale pending value *)

\* a lookup of a hash the chain had finalized as succeeded when it was made
LookupOfSucceeded(p) ==
    /\ pollers[p].op = "receipt"
    /\ pollers[p].pc = "done"
    /\ pollers[p].result = "OK"
    /\ pollers[p].asked = "success"

\* C28: with the transaction finalized as succeeded on chain, a pending value
\* that a slower concurrent lookup wrote over the succeeded one is gone after
\* one TTL: a lookup made once the stale entry has outlived its TTL returns
\* the succeeded receipt, and every lookup made after the succeeded receipt
\* was the last value stored returns the succeeded receipt.
C28_StalePendingIsTransient ==
    \A p \in Calls :
        ( /\ LookupOfSucceeded(p)
          /\ pollers[p].prev.known
          /\ \/ pollers[p].prev.value.status = "success"
             \/ pollers[p].prev.value.status = "pending" /\ pollers[p].stale )
        => pollers[p].receipt.status = "success"

----------------------------------------------------------------------------
(* Failures of the pair lookup and of the pair queries *)

\* the awaits of getPrice, and of the estimate inside getTradeInfo
PricePoolCalls == {"getPair", "pairAddress", "getReserveBase", "getReserveQuote"}
TradePoolCalls == {"getPair", "getAmount"}

PricePoolFailed == priceReq.failedAt \in PricePoolCalls
TradePoolFailed(r) == req[r].failedAt \in TradePoolCalls

\* the request is over and has answered nothing
PriceNoResponse ==
    /\ priceReq.pc = "done"
    /\ priceReq.price = NoValue
    /\ priceReq.expectedAmount = NoValue

TradeNoResponse(r) ==
    /\ req[r].pc = "done"
    /\ req[r].phases = <<>>
    /\ req[r].trade = NoTrade
    /\ req[r].execCalls = 0
    /\ req[r].sendCalls = 0
    /\ SentBy(r) = {}

\* C29 as stated: every failure of the pair lookup or of a pair query ends the
\* price request with the price-failed kind and the trade request with the
\* trade-failed kind.
C29_PoolFailureKinds ==
    /\ PricePoolFailed => priceReq.result = PRICE_FAILED
    /\ \A r \in AllReqs : TradePoolFailed(r) => req[r].result = TRADE_FAILED

\* C29: a failure of the pair lookup or of a pair query that throws an Error
\* ends the price request with the price-failed kind and the trade request
\* with the trade-failed kind; one that throws another value ends either with
\* the unknown-error kind; the request is over, the exception never leaves it
\* as thrown, and nothing is answered or submitted.
C29_PoolFailureKindsByThrown ==
    /\ PricePoolFailed
         => /\ priceReq.thrown \in Thrown
            /\ priceReq.result = IF priceReq.thrown = "Error"
                                 THEN PRICE_FAILED ELSE UNKNOWN_ERROR
            /\ PriceNoResponse
    /\ \A r \in AllReqs :
         TradePoolFailed(r)
         => /\ req[r].thrown \in Thrown
            /\ req[r].result = IF req[r].thrown = "Error"
                               THEN TRADE_FAILED ELSE UNKNOWN_ERROR
            /\ TradeNoResponse(r)

\* the quote reserve query of a price request and the pair lookup of a trade
\* request both failed with an Error
C29_Witness ==
    /\ priceReq.failedAt = "getReserveQuote"
    /\ priceReq.thrown = "Error"
    /\ priceReq.result = PRICE_FAILED
    /\ \E r \in AllReqs :
          /\ req[r].failedAt = "getPair"
          /\ req[r].thrown = "Error"
          /\ req[r].result = TRADE_FAILED

----------------------------------------------------------------------------
(* Concurrent init() calls *)

\* the loadTokens calls in progress
LoadsInProgress ==
    {k \in DOMAIN initState.promises : initState.promises[k] = "pending"}

\* C30: init() waits for an init() call in progress: whatever the interleaving
\* of the init() calls, at most one loadTokens call is in progress at a time,
\* loadTokens is begun a second time only after a load that failed, and never
\* after a load that has returned.
C30_LoadTokensAtMostOnce ==
    /\ Cardinality(LoadsInProgress) <= 1
    /\ initState.failed = 0 => initState.loads <= 1
    /\ ~initState.reloaded

----------------------------------------------------------------------------
(* Two trade requests of one wallet *)

\* C31: two trade requests of the same wallet that run side by side never
\* hand provider.sendTransaction two transactions with the same nonce.
C31_DistinctNonces ==
    \A i, j \in DOMAIN sent :
        ( /\ sent[i].by # sent[j].by
          /\ sent[i].tx.sender = sent[j].tx.sender )
        => sent[i].tx.nonce # sent[j].tx.nonce

----------------------------------------------------------------------------
(* One instance per network *)

\* C32: whatever the interleaving of the getInstance(network) calls, at most
\* one XExchange and at most one Multiversx instance of a network is
\* constructed and initialized, and all callers of a network receive the same
\* instance.
C32_OneInstancePerNetwork ==
    /\ \A n \in InstanceNetworks :
          /\ instances.xInited[n] <= 1
          /\ instances.mBuilt[n] <= 1
    /\ \A g, h \in GetCalls :
          ( /\ instances.calls[g].result = "OK"
            /\ instances.calls[h].result = "OK"
            /\ instances.calls[g].network = instances.calls[h].network )
          => instances.calls[g].returned = instances.calls[h].returned

----------------------------------------------------------------------------
(* The expected amount of a trade response *)

\* C33: a successful trade response carries the estimated counter-amount:
\* expectedIn of a BUY is the estimate's inputAmount, expectedOut of a SELL is
\* the estimate's outputAmount.
C33_ExpectedIsCounterAmount ==
    \A r \in AllReqs :
        (req[r].pc = "done" /\ req[r].result = "OK")
        => req[r].expectedAmount = IF req[r].side = "BUY"
                                   THEN req[r].trade.inputAmount
                                   ELSE req[r].trade.outputAmount

----------------------------------------------------------------------------
(* The two symbol lookups of the directory *)

\* C34: once the tokens are loaded, getTokenForSymbol and getTokenBySymbol
\* find a token for the same symbols, and the same token.
C34_LookupsAgree ==
    ready => \A s \in LookupSymbols : getTokenForSymbol(s) = getTokenBySymbol(s)

----------------------------------------------------------------------------
(* The two versions of poll() *)

\* C35: for every receipt a poll() request classifies (status successful,
\* pending, failed, or not a status object), the poll() of
\* multiversx.controllers.ts and the poll() of the newer controller give the
\* same txStatus.
C35_PollVersionsAgree ==
    \A p \in Calls :
        ( /\ pollers[p].op \in PollOps
          /\ pollers[p].pc = "done"
          /\ pollers[p].result = "OK" )
        => PollStatus(pollers[p].receipt) = PollStatusOld(pollers[p].receipt)

----------------------------------------------------------------------------
(* ready() across failed and repeated init() calls *)

\* C36: an init() whose load fails ends with the adapter not ready; an init()
\* that resumes while the adapter is not ready begins a load; ready() is true
\* only after a load has returned, and once true it stays true.
C36_ReadyOnceLoaded ==
    /\ [](ready => initState.loaded)
    /\ [][ready => ready']_vars
    /\ [][\A c \in InitCalls :
            /\ ( /\ initState.calls[c].pc = "awaitPrev"
                 /\ initState'.calls[c].pc # "awaitPrev"
                 /\ ~ready )
               => /\ initState'.calls[c].pc = "awaitLoad"
                  /\ initState'.loads = initState.loads + 1
            /\ ( /\ initState.calls[c].pc = "awaitLoad"
                 /\ initState'.calls[c].pc = "done" )
               => ready' = (initState.promises[initState.calls[c].waits] = "true")]_vars

----------------------------------------------------------------------------
(* balances(): the wallet first, then one entry per resolved symbol *)

\* the requested symbols the directory resolves
BalResolved ==
    {balReq.tokenSymbols[i] : i \in DOMAIN balReq.tokenSymbols}
        \cap {s \in Symbols : getTokenBySymbol(s) # NoToken}

BalWalletFirst ==
    /\ (balReq.pc \notin {"idle", "getWallet"} /\ balReq.address # Wallet)
          => /\ balReq.pc = "done"
             /\ balReq.result = LOAD_WALLET_ERROR
             /\ balReq.failedAt = "getWallet"
             /\ balReq.balanceQueries = 0
    /\ balReq.pc = "getWallet" => balReq.balanceQueries = 0

BalOneEntryPerResolved ==
    (balReq.pc = "done" /\ balReq.result = "OK")
        => \A s \in Symbols : (balReq.balances[s] # NoValue) <=> (s \in BalResolved)

BalNoneResolvedFails ==
    (balReq.pc = "done" /\ balReq.address = Wallet /\ BalResolved = {})
        => balReq.result = TOKEN_NOT_SUPPORTED

\* C37: balances() loads the wallet first: a wallet that cannot be loaded
\* ends the request with the load-wallet error and no balance query; a
\* successful response holds exactly one entry for every requested symbol the
\* directory resolves; a request none of whose symbols resolves fails with
\* token-not-supported.
C37_BalancesContract ==
    /\ BalWalletFirst
    /\ BalOneEntryPerResolved
    /\ BalNoneResolvedFails

====
